---- MODULE Spec2Model ----
\* On-disk lifecycle of one test of the suite (store::test::Test), the
\* filesystem helpers it is built on (util::fs) and the VCS gate
\* (project::vcs::Vcs), modelled for a single test directory.
EXTENDS Integers, Sequences, FiniteSets, TLC

\* ---------------------------------------------------------------- bounds
\* Largest number of pages of a reference document.
MaxPages == 2
\* Largest index of the filesystem call of one handler that may be made to
\* fail with an unrelated I/O error (0 = no call fails).
MaxFail == 3

\* ------------------------------------------------------------- constants
GITIGNORE_NAME == ".gitignore"
HGIGNORE_NAME == ".hgignore"
IGNORE_HEADER == "# generated by tytanic, do not edit"
TEST_SCRIPT == "test.typ"
REF_SCRIPT == "ref.typ"

ReferenceKind == {"Persistent", "Ephemeral", "CompileOnly"}
VcsChoice == {"NoVcs", "Git", "Mercurial"}
TestTarget == {"TestDir", "RefDir", "OutDir", "DiffDir"}
SubDirs == {"RefDir", "OutDir", "DiffDir"}
FileNames == {TEST_SCRIPT, REF_SCRIPT, GITIGNORE_NAME, HGIGNORE_NAME}

\* File contents are sequences of lines.
Sources == {<<"Hello World">>}
RefSources == {<<"Hello", "World">>}
StaleIgnore == <<"blah blah">>
Documents == 0..MaxPages

\* ------------------------------------------------------------------ disk
\* The test directory: whether it exists, its regular files (name -> lines),
\* its sub directories and the page files (n.png) inside ref/.
VARIABLES disk, refKind, vcs, last

\* The state of the store: everything the store operations read or write.
storeVars == <<disk, refKind, vcs, last>>

\* Two identifiers and the paths the path functions assign to them.
VARIABLES pathSt

\* The components that follow each component, for the frame conditions, and
\* the state each of them rests in while another component is running.
\* A run of the tests: the environment of the run, the phase of run_tests,
\* the tests the filter retained, what each worker is doing, the tests
\* started and reported, the all_ok flag, the stop flag of try_for_each with
\* the errors the closures returned, and the exit code.
VARIABLES env, phase, matched, pc, cur, started, reported, all_ok, full,
          breaks, occurred, exitCode

runVars == <<env, phase, matched, pc, cur, started, reported, all_ok, full,
             breaks, occurred, exitCode>>

\* One invocation of the command line: the result of the dispatched command,
\* whether the ui can be written, and what Context::run returned.
VARIABLES ctxSt

\* One update invocation: the tests found, the filter, the outcome of each
\* test, the tests whose references were written, and the results.
VARIABLES updSt

\* Building the filter of an invocation: the filter options, the tests
\* annotated with skip, and the filter that Context::filter returned.
VARIABLES fltSt

\* One call of an argument check of the test set functions: the type and
\* the count asked for, the arguments given, and what the check returned.
VARIABLES argSt

\* One test of a run whose reference script may be removed between
\* collection and run: the kind collected, the script on disk, the result.
VARIABLES refSt

\* One comparison of two rendered pages under the compare options.
VARIABLES cmpSt

\* One text written through an indenting writer in several calls.
VARIABLES indSt

\* One discovery of a project from a directory and its ancestors.
VARIABLES discSt

\* The file slots of a world over several compilations.
VARIABLES worldSt

\* One test script and the annotations read from its head.
VARIABLES annSt

\* One creation of a test from the scaffold of the project.
VARIABLES scafSt

\* One creation of a test in a project with files already on disk.
VARIABLES newSt

\* One walk of the test root that discovers the tests.
VARIABLES walkSt

afterNew == <<walkSt>>
afterScaf == <<newSt, afterNew>>
afterAnn == <<scafSt, afterScaf>>
afterWorld == <<annSt, afterAnn>>
afterDisc == <<worldSt, afterWorld>>
afterInd == <<discSt, afterDisc>>
afterCmp == <<indSt, afterInd>>
afterRef == <<cmpSt, afterCmp>>
afterArgs == <<refSt, afterRef>>
afterFlt == <<argSt, afterArgs>>
afterUpd == <<fltSt, afterFlt>>
afterCtx == <<updSt, afterUpd>>
afterRun == <<ctxSt, afterCtx>>
afterPaths == <<runVars, afterRun>>
afterStore == <<pathSt, afterPaths>>
beforeRun == <<storeVars, pathSt>>
beforeCtx == <<beforeRun, runVars>>
beforeUpd == <<beforeCtx, ctxSt>>
beforeFlt == <<beforeUpd, updSt>>
beforeArgs == <<beforeFlt, fltSt>>
beforeRef == <<beforeArgs, argSt>>
beforeCmp == <<beforeRef, refSt>>
beforeInd == <<beforeCmp, cmpSt>>
beforeDisc == <<beforeInd, indSt>>
beforeWorld == <<beforeDisc, discSt>>
beforeAnn == <<beforeWorld, worldSt>>
beforeScaf == <<beforeAnn, annSt>>
beforeNew == <<beforeScaf, scafSt>>
beforeWalk == <<beforeNew, newSt>>

vars == <<storeVars, afterStore>>

NoPath == <<>>
NoPaths == [dir |-> NoPath, script |-> NoPath, ref_script |-> NoPath,
            ref_dir |-> NoPath, out_dir |-> NoPath, diff_dir |-> NoPath]
PathsIdle ==
    pathSt = [stage |-> "idle", a |-> <<>>, b |-> <<>>, ida |-> <<>>,
              idb |-> <<>>, valid |-> FALSE, pa |-> NoPaths, pb |-> NoPaths]
NumTests == 3
NumWorkers == 2
Tests == 1..NumTests
Workers == 1..NumWorkers
RunIdle ==
    /\ env = [fault |-> "none", found |-> {},
              filter |-> [some |-> FALSE, matches |-> {}],
              fail_fast |-> FALSE, outcome |-> [t \in Tests |-> "pass"]]
    /\ phase = "idle" /\ matched = {}
    /\ pc = [w \in Workers |-> "idle"] /\ cur = [w \in Workers |-> 0]
    /\ started = {} /\ reported = {} /\ all_ok = TRUE /\ full = FALSE
    /\ breaks = {} /\ occurred = {} /\ exitCode = -1
NoResult == [ok |-> TRUE, chain |-> <<>>]
CtxIdle ==
    ctxSt = [stage |-> "idle", cmd |-> NoResult, ui_ok |-> TRUE,
             res |-> NoResult, code |-> -1]
UpdIdle ==
    updSt = [stage |-> "idle", found |-> {}, filter |-> [some |-> FALSE, matches |-> {}],
             fail_fast |-> FALSE, failing |-> {}, tests |-> {}, refs |-> {},
             code |-> -1, unique |-> 0]
NoFilter == [kind |-> "none", set |-> {}]
FltIdle ==
    fltSt = [stage |-> "idle",
             opts |-> [expression |-> [ok |-> "ok", set |-> {}],
                       skip |-> [skip |-> FALSE, no_skip |-> FALSE],
                       tests |-> {}],
             skipped |-> {}, ui_ok |-> TRUE, res |-> NoResult,
             filter |-> NoFilter, matched |-> {}]
NoError == [kind |-> "none", expected |-> 0, is_min |-> FALSE, found |-> 0,
            expected_type |-> "none", found_type |-> "none"]
NoValues == [ok |-> FALSE, err |-> NoError, fixed |-> <<>>, rest |-> <<>>]
ArgsIdle == argSt = [stage |-> "idle", T |-> "none", N |-> 0, args |-> <<>>,
                     res |-> NoValues]
Off == [stage |-> "idle"]
RefIdle == refSt = Off
CmpIdle == cmpSt = Off
IndIdle == indSt = Off
DiscIdle == discSt = Off
WorldIdle == worldSt = Off
AnnIdle == annSt = Off
ScafIdle == scafSt = Off
NewIdle == newSt = Off
WalkIdle == walkSt = Off
IdleAfterNew == WalkIdle
IdleAfterScaf == NewIdle /\ IdleAfterNew
IdleAfterAnn == ScafIdle /\ IdleAfterScaf
IdleAfterWorld == AnnIdle /\ IdleAfterAnn
IdleAfterDisc == WorldIdle /\ IdleAfterWorld
IdleAfterInd == DiscIdle /\ IdleAfterDisc
IdleAfterCmp == IndIdle /\ IdleAfterInd
IdleAfterRef == CmpIdle /\ IdleAfterCmp
IdleAfterArgs == RefIdle /\ IdleAfterRef
IdleAfterFlt == ArgsIdle /\ IdleAfterArgs
IdleAfterUpd == FltIdle /\ IdleAfterFlt
IdleAfterCtx == UpdIdle /\ IdleAfterUpd
IdleAfterRun == CtxIdle /\ IdleAfterCtx
IdleAfterPaths == RunIdle /\ IdleAfterRun
IdleAfterStore == PathsIdle /\ IdleAfterPaths

NoFiles == [n \in {} |-> <<>>]

EmptyDisk == [dir |-> FALSE, files |-> NoFiles, dirs |-> {}, pages |-> {}]

HasFile(d, name) == name \in DOMAIN d.files

WriteFile(d, name, content) ==
    [d EXCEPT !.files = [n \in (DOMAIN d.files) \cup {name} |->
                            IF n = name THEN content ELSE d.files[n]]]

DropFile(d, name) ==
    [d EXCEPT !.files = [n \in (DOMAIN d.files) \ {name} |-> d.files[n]]]

\* State of the path of a target: "absent", "empty" or "nonempty" directory.
PathState(d, target) ==
    IF target = "TestDir"
    THEN IF ~d.dir THEN "absent"
         ELSE IF DOMAIN d.files = {} /\ d.dirs = {} THEN "empty" ELSE "nonempty"
    ELSE IF target \notin d.dirs THEN "absent"
         ELSE IF target = "RefDir" /\ d.pages # {} THEN "nonempty" ELSE "empty"

\* The parent of the test dir is the test root, which exists once the project
\* is initialised; the parent of the other targets is the test dir.
ParentExists(d, target) == IF target = "TestDir" THEN TRUE ELSE d.dir

\* The disk with the directory of a target present (parents included).
WithDir(d, target) ==
    IF target = "TestDir" THEN [d EXCEPT !.dir = TRUE]
    ELSE [d EXCEPT !.dir = TRUE, !.dirs = @ \cup {target}]

\* The disk with the directory of a target and everything below it removed.
WithoutDir(d, target) ==
    IF target = "TestDir" THEN EmptyDisk
    ELSE [d EXCEPT !.dirs = @ \ {target},
                   !.pages = IF target = "RefDir" THEN {} ELSE @]

DiskOk(d) ==
    /\ d.dir \in BOOLEAN
    /\ DOMAIN d.files \subseteq FileNames
    /\ d.dirs \subseteq SubDirs
    /\ d.pages \subseteq 1..MaxPages
    /\ (~d.dir => (DOMAIN d.files = {} /\ d.dirs = {}))
    /\ ("RefDir" \notin d.dirs => d.pages = {})

\* ----------------------------------------------------------- io results
Ok(d) == [ok |-> TRUE, err |-> "none", disk |-> d]
Err(e, d) == [ok |-> FALSE, err |-> e, disk |-> d]

\* result::ignore: an error accepted by the check becomes success.
ResultIgnore(r, check) == IF ~r.ok /\ check THEN Ok(r.disk) ELSE r

\* std::fs::create_dir / create_dir_all, as selected by `inner`.
CreateDirInner(d, target, all, inj) ==
    IF inj THEN Err("PermissionDenied", d)
    ELSE IF PathState(d, target) # "absent"
         THEN IF all THEN Ok(d) ELSE Err("AlreadyExists", d)
         ELSE IF ~all /\ ~ParentExists(d, target) THEN Err("NotFound", d)
              ELSE Ok(WithDir(d, target))

\* std::fs::remove_dir / remove_dir_all, as selected by `inner`.
RemoveDirInner(d, target, all, inj) ==
    IF inj THEN Err("PermissionDenied", d)
    ELSE IF PathState(d, target) = "absent" THEN Err("NotFound", d)
         ELSE IF ~all /\ PathState(d, target) = "nonempty"
              THEN Err("DirectoryNotEmpty", d)
              ELSE Ok(WithoutDir(d, target))

\* util::fs::create_dir
create_dir(d, target, all, inj) ==
    LET r == CreateDirInner(d, target, all, inj)
    IN ResultIgnore(r, r.err = "AlreadyExists")

\* Variant of remove_dir: the error of the inner call is returned as it is.
remove_dir_Raw(d, target, all, inj) == RemoveDirInner(d, target, all, inj)

\* util::fs::remove_dir
remove_dir(d, target, all, inj) ==
    LET r == RemoveDirInner(d, target, all, inj)
    IN ResultIgnore(r, r.err = "NotFound" /\ ParentExists(d, target))

\* util::fs::remove_file: a missing file is not an error.
remove_file(d, name, inj) ==
    IF inj THEN Err("PermissionDenied", d)
    ELSE IF HasFile(d, name) THEN Ok(DropFile(d, name)) ELSE Ok(d)

\* std::fs::write: creates or truncates the file; the directory must exist.
FsWrite(d, name, content, inj) ==
    IF inj THEN Err("PermissionDenied", d)
    ELSE IF ~d.dir THEN Err("NotFound", d)
    ELSE Ok(WriteFile(d, name, content))

\* std::fs::remove_file
FsRemoveFile(d, name, inj) ==
    IF inj THEN Err("PermissionDenied", d)
    ELSE IF HasFile(d, name) THEN Ok(DropFile(d, name)) ELSE Err("NotFound", d)

\* std::fs::copy
FsCopy(d, from, to, inj) ==
    IF inj THEN Err("PermissionDenied", d)
    ELSE IF ~HasFile(d, from) THEN Err("NotFound", d)
    ELSE Ok(WriteFile(d, to, d.files[from]))

\* File::options().write(true).create_new(true).open(..)
OpenCreateNew(d, name, inj) ==
    IF inj THEN Err("PermissionDenied", d)
    ELSE IF ~d.dir THEN Err("NotFound", d)
    ELSE IF HasFile(d, name) THEN Err("AlreadyExists", d)
    ELSE Ok(WriteFile(d, name, <<>>))

\* Document::save: writes the pages as 1.png .. n.png into the directory.
DocumentSave(d, n, inj) ==
    IF inj THEN Err("PermissionDenied", d)
    ELSE IF "RefDir" \notin d.dirs THEN Err("NotFound", d)
    ELSE Ok([d EXCEPT !.pages = @ \cup (1..n)])

\* ------------------------------------------------------------------- vcs
\* The name of the ignore file of a Vcs kind (the `match self.kind`).
IgnoreFileName(vk) == IF vk = "Git" THEN GITIGNORE_NAME ELSE HGIGNORE_NAME

\* Variant of the content: `ref/**` is listed for every kind.
IgnoreContent_AlwaysRef(vk, kind) ==
    <<IGNORE_HEADER, "">>
        \o (IF vk = "Mercurial" THEN <<"syntax: glob">> ELSE <<>>)
        \o <<"diff/**", "out/**", "ref/**">>

\* The content Vcs::ignore writes for a test of the given kind.
IgnoreContent(vk, kind) ==
    <<IGNORE_HEADER, "">>
        \o (IF vk = "Mercurial" THEN <<"syntax: glob">> ELSE <<>>)
        \o <<"diff/**", "out/**">>
        \o (IF kind # "Persistent" THEN <<"ref/**">> ELSE <<>>)

\* Variant of Vcs::ignore that appends to an ignore file that exists.
Vcs_ignore_Merge(d, vk, kind, inj) ==
    FsWrite(d, IgnoreFileName(vk),
            (IF HasFile(d, IgnoreFileName(vk)) THEN d.files[IgnoreFileName(vk)]
             ELSE <<>>) \o IgnoreContent(vk, kind), inj)

\* Vcs::ignore
Vcs_ignore(d, vk, kind, inj) ==
    FsWrite(d, IgnoreFileName(vk), IgnoreContent(vk, kind), inj)

\* Vcs::unignore
Vcs_unignore(d, vk, inj) == FsRemoveFile(d, IgnoreFileName(vk), inj)

\* --------------------------------------------------- running a handler
\* The state threaded through the steps of one handler: the disk, the kind of
\* the Test value, whether a step has returned an error (`?`), the steps
\* completed so far and the countdown to the injected failure.
Start(d, kind, failAt) ==
    [disk |-> d, kind |-> kind, ok |-> TRUE, err |-> "none",
     trace |-> <<>>, fail |-> failAt]

Inj(c) == c.fail = 1

\* One fallible call followed by `?`.
Bind(c, name, r) ==
    IF ~c.ok THEN c
    ELSE IF r.ok
         THEN [c EXCEPT !.disk = r.disk, !.trace = Append(@, name),
                        !.fail = IF @ > 0 THEN @ - 1 ELSE 0]
         ELSE [c EXCEPT !.ok = FALSE, !.err = r.err, !.disk = r.disk,
                        !.fail = 0]

\* An infallible step.
Note(c, name) == IF ~c.ok THEN c ELSE [c EXCEPT !.trace = Append(@, name)]

\* Vcs::ignore_target of the store: no-op without a VCS, else Vcs::ignore;
\* ignoring the reference dir is Vcs::ignore for a test whose references are
\* not persistent.
ignore_target(c, vk, target, name) ==
    IF vk = "NoVcs" THEN Note(c, name)
    ELSE Bind(c, name,
              Vcs_ignore(c.disk, vk,
                         IF target = "RefDir" /\ c.kind = "Persistent"
                         THEN "Ephemeral" ELSE c.kind,
                         Inj(c)))

\* Vcs::unignore_target of the store: no-op without a VCS, else Vcs::unignore.
unignore_target(c, vk, target, name) ==
    IF vk = "NoVcs" THEN Note(c, name)
    ELSE Bind(c, name, Vcs_unignore(c.disk, vk, Inj(c)))

\* ------------------------------------------------------------ store::Test
create_reference_script(c, reference) ==
    Bind(c, "create_reference_script",
         FsWrite(c.disk, REF_SCRIPT, reference, Inj(c)))

create_reference_document(c, n) ==
    LET c1 == Bind(c, "create_dir_ref", create_dir(c.disk, "RefDir", TRUE, Inj(c)))
    IN Bind(c1, "create_reference_document", DocumentSave(c1.disk, n, Inj(c1)))

delete_reference_script(c) ==
    Bind(c, "delete_reference_script", remove_file(c.disk, REF_SCRIPT, Inj(c)))

delete_reference_documents(c) ==
    Bind(c, "delete_reference_documents",
         remove_dir(c.disk, "RefDir", TRUE, Inj(c)))

create_temporary_directories(c) ==
    LET c1 == IF c.kind = "Ephemeral"
              THEN Bind(c, "create_dir_ref", create_dir(c.disk, "RefDir", TRUE, Inj(c)))
              ELSE c
        c2 == Bind(c1, "create_dir_out", create_dir(c1.disk, "OutDir", TRUE, Inj(c1)))
    IN Bind(c2, "create_dir_diff", create_dir(c2.disk, "DiffDir", TRUE, Inj(c2)))

\* Variant of delete_temporary_directories: ref/ is removed for every kind.
delete_temporary_directories_AnyKind(c) ==
    LET c1 == Bind(c, "remove_dir_ref", remove_dir(c.disk, "RefDir", TRUE, Inj(c)))
        c2 == Bind(c1, "remove_dir_out", remove_dir(c1.disk, "OutDir", TRUE, Inj(c1)))
    IN Bind(c2, "remove_dir_diff", remove_dir(c2.disk, "DiffDir", TRUE, Inj(c2)))

delete_temporary_directories(c) ==
    LET c1 == IF c.kind = "Ephemeral"
              THEN Bind(c, "remove_dir_ref", remove_dir(c.disk, "RefDir", TRUE, Inj(c)))
              ELSE c
        c2 == Bind(c1, "remove_dir_out", remove_dir(c1.disk, "OutDir", TRUE, Inj(c1)))
    IN Bind(c2, "remove_dir_diff", remove_dir(c2.disk, "DiffDir", TRUE, Inj(c2)))

ignore_temporary_directories(c, vk) ==
    LET c1 == IF c.kind = "Ephemeral" THEN ignore_target(c, vk, "RefDir", "ignore_ref") ELSE c
        c2 == ignore_target(c1, vk, "OutDir", "ignore_out")
    IN ignore_target(c2, vk, "DiffDir", "ignore_diff")

ignore_reference_documents(c, vk) ==
    ignore_target(c, vk, "RefDir", "ignore_reference_documents")

unignore_reference_documents(c, vk) ==
    unignore_target(c, vk, "RefDir", "unignore_reference_documents")

\* References passed to Test::create: none, a reference script or a document.
References ==
    {[kind |-> "CompileOnly", script |-> <<>>, doc |-> 0]}
    \cup {[kind |-> "Ephemeral", script |-> s, doc |-> 0] : s \in RefSources}
    \cup {[kind |-> "Persistent", script |-> <<>>, doc |-> n] : n \in Documents}

\* Test::create
Test_create(d, vk, source, references, failAt) ==
    LET c0 == Start(d, references.kind, failAt)
        c1 == Bind(c0, "create_dir_test", create_dir(c0.disk, "TestDir", TRUE, Inj(c0)))
        c2 == Bind(c1, "open_test_script", OpenCreateNew(c1.disk, TEST_SCRIPT, Inj(c1)))
        c3 == Bind(c2, "write_test_script", FsWrite(c2.disk, TEST_SCRIPT, source, Inj(c2)))
        c4 == IF references.kind = "Ephemeral"
              THEN create_reference_script(c3, references.script)
              ELSE IF references.kind = "Persistent"
                   THEN create_reference_document(c3, references.doc)
                   ELSE c3
    IN ignore_temporary_directories(c4, vk)

\* Variant of Test::delete: the test dir itself is left in place.
Test_delete_KeepDir(d, kind, failAt) ==
    LET c0 == Start(d, kind, failAt)
        c1 == delete_reference_documents(c0)
        c2 == delete_reference_script(c1)
        c3 == delete_temporary_directories(c2)
    IN Bind(c3, "remove_test_script", remove_file(c3.disk, TEST_SCRIPT, Inj(c3)))

\* Test::delete
Test_delete(d, kind, failAt) ==
    LET c0 == Start(d, kind, failAt)
        c1 == delete_reference_documents(c0)
        c2 == delete_reference_script(c1)
        c3 == delete_temporary_directories(c2)
        c4 == Bind(c3, "remove_test_script", remove_file(c3.disk, TEST_SCRIPT, Inj(c3)))
    IN Bind(c4, "remove_test_dir", remove_dir(c4.disk, "TestDir", TRUE, Inj(c4)))

\* `self.ref_kind = ..` at the end of a make_<kind>.
SetKind(c, kind) ==
    IF ~c.ok THEN c ELSE [c EXCEPT !.kind = kind, !.trace = Append(@, "set_kind")]

\* Variant of make_ephemeral: the kind is set before the script is copied.
make_ephemeral_KindBeforeCopy(d, kind, vk, failAt) ==
    LET c0 == Start(d, kind, failAt)
        c1 == delete_reference_script(c0)
        c2 == delete_reference_documents(c1)
        c3 == ignore_reference_documents(c2, vk)
        c4 == SetKind(c3, "Ephemeral")
    IN Bind(c4, "copy", FsCopy(c4.disk, TEST_SCRIPT, REF_SCRIPT, Inj(c4)))

\* Test::make_ephemeral
make_ephemeral(d, kind, vk, failAt) ==
    LET c0 == Start(d, kind, failAt)
        c1 == delete_reference_script(c0)
        c2 == delete_reference_documents(c1)
        c3 == ignore_reference_documents(c2, vk)
        c4 == Bind(c3, "copy", FsCopy(c3.disk, TEST_SCRIPT, REF_SCRIPT, Inj(c3)))
    IN SetKind(c4, "Ephemeral")

\* Variant of make_persistent: the kind is set before the first step.
make_persistent_KindFirst(d, kind, vk, n, failAt) ==
    LET c0 == Start(d, "Persistent", failAt)
        c1 == delete_reference_script(c0)
        c2 == delete_reference_documents(c1)
        c3 == create_reference_document(c2, n)
        c4 == unignore_reference_documents(c3, vk)
    IN Note(c4, "set_kind")

\* Test::make_persistent
make_persistent(d, kind, vk, n, failAt) ==
    LET c0 == Start(d, kind, failAt)
        c1 == delete_reference_script(c0)
        c2 == delete_reference_documents(c1)
        c3 == create_reference_document(c2, n)
        c4 == unignore_reference_documents(c3, vk)
    IN SetKind(c4, "Persistent")

\* Test::make_compile_only
make_compile_only(d, kind, vk, failAt) ==
    LET c0 == Start(d, kind, failAt)
        c1 == delete_reference_documents(c0)
        c2 == delete_reference_script(c1)
    IN SetKind(c2, "CompileOnly")

\* The kind collection derives from the files of the test dir.
DerivedKind(d) ==
    IF HasFile(d, REF_SCRIPT) THEN "Ephemeral"
    ELSE IF "RefDir" \in d.dirs THEN "Persistent"
    ELSE "CompileOnly"

\* ------------------------------------------------------------------ init
InitContent(name) ==
    IF name = TEST_SCRIPT THEN Sources
    ELSE IF name = REF_SCRIPT THEN RefSources
    ELSE {StaleIgnore}

InitFiles ==
    {f \in UNION {[S -> Sources \cup RefSources \cup {StaleIgnore}] : S \in SUBSET FileNames} :
        \A n \in DOMAIN f : f[n] \in InitContent(n)}

\* Every shape a test directory can have before the program touches it.
InitDisks ==
    {EmptyDisk} \cup
    {[dir |-> TRUE, files |-> f, dirs |-> ds, pages |-> 1..n] :
        f \in InitFiles, ds \in SUBSET SubDirs, n \in 0..MaxPages}

\* Only the ignore file of the VCS in use is present in the test dir.
IgnoreFilesOf(d, vk) ==
    (DOMAIN d.files) \cap {GITIGNORE_NAME, HGIGNORE_NAME}
        \subseteq (IF vk = "NoVcs" THEN {} ELSE {IgnoreFileName(vk)})

NoArg == [n |-> 0, target |-> "none", all |-> FALSE, kind |-> "none",
          before |-> "none"]

\* What the ignore file of the Vcs was when a Vcs operation was called.
IgnoreFileState(d, vk) ==
    IF ~HasFile(d, IgnoreFileName(vk)) THEN "missing"
    ELSE IF d.files[IgnoreFileName(vk)] = StaleIgnore THEN "stale"
    ELSE "generated"

Done(op, c, arg) ==
    [op |-> op, ok |-> c.ok, err |-> c.err, trace |-> c.trace, arg |-> arg]

\* The store is driven by Project, whose vcs is `Option<Git>`.
StoreVcs == {"NoVcs", "Git"}

Init ==
    /\ vcs \in StoreVcs
    /\ disk \in {d \in InitDisks : DiskOk(d) /\ IgnoreFilesOf(d, vcs)}
    /\ refKind \in {"CompileOnly", DerivedKind(disk)}
    /\ last = [op |-> "init", ok |-> TRUE, err |-> "none", trace |-> <<>>,
               arg |-> NoArg]
    /\ IdleAfterStore

\* --------------------------------------------------------------- actions
FailPoints == 0..MaxFail

\* Test::create: the new Test value replaces the handle only on success.
Create ==
    \E source \in Sources, references \in References, failAt \in FailPoints :
        LET c == Test_create(disk, vcs, source, references, failAt)
        IN /\ disk' = c.disk
           /\ refKind' = IF c.ok THEN c.kind ELSE refKind
           /\ last' = Done("create", c,
                           [NoArg EXCEPT !.kind = references.kind, !.n = references.doc])
           /\ UNCHANGED <<vcs, afterStore>>

\* The make_<kind> are called on the handle of a test that create or
\* collection produced: its test script exists.
MakeEphemeral ==
    /\ HasFile(disk, TEST_SCRIPT)
    /\ \E failAt \in FailPoints :
        LET c == make_ephemeral(disk, refKind, vcs, failAt)
        IN /\ disk' = c.disk
           /\ refKind' = c.kind
           /\ last' = Done("make_ephemeral", c, [NoArg EXCEPT !.kind = "Ephemeral"])
           /\ UNCHANGED <<vcs, afterStore>>

MakePersistent ==
    /\ HasFile(disk, TEST_SCRIPT)
    /\ \E n \in Documents, failAt \in FailPoints :
        LET c == make_persistent(disk, refKind, vcs, n, failAt)
        IN /\ disk' = c.disk
           /\ refKind' = c.kind
           /\ last' = Done("make_persistent", c,
                           [NoArg EXCEPT !.kind = "Persistent", !.n = n])
           /\ UNCHANGED <<vcs, afterStore>>

MakeCompileOnly ==
    /\ HasFile(disk, TEST_SCRIPT)
    /\ \E failAt \in FailPoints :
        LET c == make_compile_only(disk, refKind, vcs, failAt)
        IN /\ disk' = c.disk
           /\ refKind' = c.kind
           /\ last' = Done("make_compile_only", c, [NoArg EXCEPT !.kind = "CompileOnly"])
           /\ UNCHANGED <<vcs, afterStore>>

\* Project::delete_tests -> Test::delete
Delete ==
    \E failAt \in FailPoints :
        LET c == Test_delete(disk, refKind, failAt)
        IN /\ disk' = c.disk
           /\ last' = Done("delete", c, [NoArg EXCEPT !.kind = refKind])
           /\ UNCHANGED <<refKind, vcs, afterStore>>

\* Project::remove_test: the test is known and its directory is removed.
RemoveTest ==
    /\ HasFile(disk, TEST_SCRIPT)
    /\ \E failAt \in 0..1 :
        LET c0 == Start(disk, refKind, failAt)
            c == Bind(c0, "remove_test_dir", remove_dir(c0.disk, "TestDir", TRUE, Inj(c0)))
        IN /\ disk' = c.disk
           /\ last' = Done("remove_test", c, [NoArg EXCEPT !.kind = refKind])
           /\ UNCHANGED <<refKind, vcs, afterStore>>

\* Project::clean_artifacts / `util clean` on a collected test.
Clean ==
    /\ HasFile(disk, TEST_SCRIPT)
    /\ \E failAt \in FailPoints :
        LET c == delete_temporary_directories(Start(disk, refKind, failAt))
        IN /\ disk' = c.disk
           /\ last' = Done("clean", c, [NoArg EXCEPT !.kind = refKind])
           /\ UNCHANGED <<refKind, vcs, afterStore>>

\* Test::create_temporary_directories before a run.
Prepare ==
    \E failAt \in FailPoints :
        LET c == create_temporary_directories(Start(disk, refKind, failAt))
        IN /\ disk' = c.disk
           /\ last' = Done("prepare", c, [NoArg EXCEPT !.kind = refKind])
           /\ UNCHANGED <<refKind, vcs, afterStore>>

\* A direct call of Vcs::ignore for the test.
Ignore ==
    /\ vcs # "NoVcs"
    /\ \E failAt \in 0..1 :
        LET c0 == Start(disk, refKind, failAt)
            c == Bind(c0, "ignore", Vcs_ignore(c0.disk, vcs, refKind, Inj(c0)))
        IN /\ disk' = c.disk
           /\ last' = Done("ignore", c, [NoArg EXCEPT !.kind = refKind,
                                   !.before = IgnoreFileState(disk, vcs)])
           /\ UNCHANGED <<refKind, vcs, afterStore>>

\* A direct call of Vcs::unignore for the test.
Unignore ==
    /\ vcs # "NoVcs"
    /\ \E failAt \in 0..1 :
        LET c0 == Start(disk, refKind, failAt)
            c == Bind(c0, "unignore", Vcs_unignore(c0.disk, vcs, Inj(c0)))
        IN /\ disk' = c.disk
           /\ last' = Done("unignore", c, [NoArg EXCEPT !.kind = refKind,
                                   !.before = IgnoreFileState(disk, vcs)])
           /\ UNCHANGED <<refKind, vcs, afterStore>>

\* A direct call of util::fs::create_dir on one of the test's directories.
UtilCreateDir ==
    \E target \in TestTarget, all \in BOOLEAN, failAt \in 0..1 :
        LET c0 == Start(disk, refKind, failAt)
            c == Bind(c0, "create_dir", create_dir(c0.disk, target, all, Inj(c0)))
        IN /\ disk' = c.disk
           /\ last' = Done("create_dir", c, [NoArg EXCEPT !.target = target, !.all = all])
           /\ UNCHANGED <<refKind, vcs, afterStore>>

\* A direct call of util::fs::remove_dir on one of the test's directories.
UtilRemoveDir ==
    \E target \in TestTarget, all \in BOOLEAN, failAt \in 0..1 :
        LET c0 == Start(disk, refKind, failAt)
            c == Bind(c0, "remove_dir", remove_dir(c0.disk, target, all, Inj(c0)))
        IN /\ disk' = c.disk
           /\ last' = Done("remove_dir", c, [NoArg EXCEPT !.target = target, !.all = all])
           /\ UNCHANGED <<refKind, vcs, afterStore>>

\* Collection re-reads the test from disk.
Collect ==
    /\ HasFile(disk, TEST_SCRIPT)
    /\ refKind' = DerivedKind(disk)
    /\ last' = [op |-> "collect", ok |-> TRUE, err |-> "none", trace |-> <<>>,
                arg |-> [NoArg EXCEPT !.kind = DerivedKind(disk)]]
    /\ UNCHANGED <<disk, vcs, afterStore>>

Next ==
    \/ Create
    \/ MakeEphemeral
    \/ MakePersistent
    \/ MakeCompileOnly
    \/ Delete
    \/ RemoveTest
    \/ Clean
    \/ Collect

Spec == Init /\ [][Next]_vars

\* ------------------------------------------- the VCS gate on its own
InitVcs ==
    /\ vcs \in {"Git", "Mercurial"}
    /\ disk \in {d \in InitDisks : DiskOk(d) /\ d.dirs = {}}
    /\ refKind \in ReferenceKind
    /\ last = [op |-> "init", ok |-> TRUE, err |-> "none", trace |-> <<>>,
               arg |-> NoArg]
    /\ IdleAfterStore

NextVcs == Ignore \/ Unignore

SpecVcs == InitVcs /\ [][NextVcs]_vars

\* ------------------------------------------- the fs helpers on their own
InitFs ==
    /\ vcs = "NoVcs"
    /\ disk \in {d \in InitDisks : DiskOk(d) /\ DOMAIN d.files \subseteq {TEST_SCRIPT}}
    /\ refKind \in ReferenceKind
    /\ last = [op |-> "init", ok |-> TRUE, err |-> "none", trace |-> <<>>,
               arg |-> NoArg]
    /\ IdleAfterStore

NextFs == UtilCreateDir \/ UtilRemoveDir \/ Prepare

SpecFs == InitFs /\ [][NextFs]_vars

TypeOK ==
    /\ DiskOk(disk)
    /\ refKind \in ReferenceKind
    /\ vcs \in VcsChoice
    /\ last.ok \in BOOLEAN

\* ================================================================ claims
MakeOps == {"make_ephemeral", "make_persistent", "make_compile_only"}
MutatingOps == MakeOps \cup {"create"}

Range(f) == {f[i] : i \in DOMAIN f}

\* The shape the data model requires of the test dir of a test of kind k.
ShapeRequired(d, k) ==
    /\ HasFile(d, TEST_SCRIPT)
    /\ k = "Persistent" =>
          ~HasFile(d, REF_SCRIPT) /\ "RefDir" \in d.dirs /\ d.pages # {}
    /\ k = "Ephemeral" => HasFile(d, REF_SCRIPT) /\ "RefDir" \notin d.dirs
    /\ k = "CompileOnly" => ~HasFile(d, REF_SCRIPT) /\ "RefDir" \notin d.dirs

\* C1: after a successful create or make_<kind> the test dir has the shape
\* required for the resulting kind (persistent: ref/ with a non-empty page set).
C1_ShapeAfterMutation ==
    (last.op \in MutatingOps /\ last.ok) => ShapeRequired(disk, last.arg.kind)

\* C2: after a successful create or make_<kind> the kind of the Test value is
\* the kind collection derives from the disk.
C2_KindReflectsDisk ==
    (last.op \in MutatingOps /\ last.ok) => refKind = DerivedKind(disk)

\* C3: a make_<kind> applied a second time (same document) succeeds and leaves
\* the disk, the ignore file and the kind as the first application left them.
C3_MakeIdempotent ==
    [][(/\ last.op \in MakeOps /\ last.ok
        /\ last'.op = last.op /\ last'.arg = last.arg
        /\ last'.err # "PermissionDenied")
       => (last'.ok /\ disk' = disk /\ refKind' = refKind)]_vars

\* The shape of the test dir with respect to kind.
ShapeOf(d) ==
    <<d.dir, HasFile(d, TEST_SCRIPT), HasFile(d, REF_SCRIPT), "RefDir" \in d.dirs>>

TargetShape(op) ==
    IF op = "make_ephemeral" THEN <<TRUE, TRUE, TRUE, FALSE>>
    ELSE IF op = "make_persistent" THEN <<TRUE, TRUE, FALSE, TRUE>>
    ELSE IF op = "make_compile_only" THEN <<TRUE, TRUE, FALSE, FALSE>>
    ELSE <<FALSE, FALSE, FALSE, FALSE>>

\* C4 (as stated): when a make_<kind> or delete returns an error, the shape on
\* disk is that of the target state or exactly that before the call.
C4_AtomicOnDisk ==
    [][(last'.op \in MakeOps \cup {"delete"} /\ ~last'.ok)
       => (ShapeOf(disk') = ShapeOf(disk) \/ ShapeOf(disk') = TargetShape(last'.op))]_vars

\* C4 (amended): when a make_<kind> or delete returns an error, the kind of the
\* Test value and the test script are as before the call; of the reference
\* artefacts, each is as before, removed, or as the target kind requires.
C4_AtomicInMemory ==
    [][(last'.op \in MakeOps \cup {"delete"} /\ ~last'.ok)
       => /\ refKind' = refKind
          /\ last'.op \in MakeOps =>
                /\ HasFile(disk', TEST_SCRIPT) = HasFile(disk, TEST_SCRIPT)
                /\ HasFile(disk, TEST_SCRIPT) =>
                      disk'.files[TEST_SCRIPT] = disk.files[TEST_SCRIPT]
                /\ HasFile(disk', REF_SCRIPT) =>
                      (HasFile(disk, REF_SCRIPT) \/ last'.op = "make_ephemeral")
                /\ "RefDir" \in disk'.dirs =>
                      ("RefDir" \in disk.dirs \/ last'.op = "make_persistent")]_vars

\* C4 witness: a failed make_persistent left neither the ephemeral shape it
\* started from nor the persistent shape.
C4_Witness ==
    /\ last.op = "make_persistent" /\ ~last.ok
    /\ refKind = "Ephemeral"
    /\ ShapeOf(disk) = <<TRUE, TRUE, FALSE, FALSE>>

DeleteSteps == {"delete_reference_script", "delete_reference_documents"}
CreateSteps == {"copy", "create_dir_ref", "create_reference_document"}
VcsSteps == {"ignore_reference_documents", "unignore_reference_documents"}

Before(t, A, B) ==
    \A i, j \in DOMAIN t : (t[i] \in A /\ t[j] \in B) => i < j

\* C5 (as stated): every make_<kind> deletes, then creates, then updates the
\* VCS, then sets the kind; the VCS update is made by every make_<kind>.
C5_StepOrder ==
    (last.op \in MakeOps /\ last.ok) =>
        LET t == last.trace
        IN /\ Before(t, DeleteSteps, CreateSteps \cup VcsSteps \cup {"set_kind"})
           /\ Before(t, CreateSteps, VcsSteps \cup {"set_kind"})
           /\ Before(t, VcsSteps, {"set_kind"})
           /\ \E i \in DOMAIN t : t[i] \in VcsSteps
           /\ t[Len(t)] = "set_kind"

\* C5 (amended): every make_<kind> deletes ref.typ and ref/ first and sets the
\* kind last, after every other step; a failed one never sets the kind.
\* make_persistent creates ref/ and then unignores, make_ephemeral ignores and
\* then copies test.typ, make_compile_only neither creates nor touches the VCS.
C5_StepOrderAmended ==
    last.op \in MakeOps =>
        LET t == last.trace
        IN /\ Before(t, DeleteSteps, CreateSteps \cup VcsSteps \cup {"set_kind"})
           /\ Before(t, CreateSteps \cup VcsSteps, {"set_kind"})
           /\ ~last.ok => "set_kind" \notin Range(t)
           /\ last.ok =>
                /\ t[Len(t)] = "set_kind"
                /\ DeleteSteps \subseteq Range(t)
                /\ last.op = "make_persistent" =>
                      t = <<"delete_reference_script", "delete_reference_documents",
                            "create_dir_ref", "create_reference_document",
                            "unignore_reference_documents", "set_kind">>
                /\ last.op = "make_ephemeral" =>
                      t = <<"delete_reference_script", "delete_reference_documents",
                            "ignore_reference_documents", "copy", "set_kind">>
                /\ last.op = "make_compile_only" =>
                      t = <<"delete_reference_documents", "delete_reference_script",
                            "set_kind">>

\* C5 witness: a make_ephemeral under Git ran to its end.
C5_Witness ==
    /\ last.op = "make_ephemeral" /\ last.ok /\ vcs = "Git"
    /\ refKind = "Ephemeral" /\ HasFile(disk, GITIGNORE_NAME)

\* C6: create fails with `already exists` whenever the test dir exists, and
\* then leaves the directory as it was.
C6_CreateFailsOnExistingDir ==
    [][(last'.op = "create" /\ disk.dir /\ last'.err # "PermissionDenied")
       => (~last'.ok /\ last'.err = "AlreadyExists" /\ disk' = disk)]_vars

\* C7: after a successful delete or remove of a test nothing of its test dir
\* is left, so collection does not find it.
C7_DeleteRemovesAll ==
    (last.op \in {"delete", "remove_test"} /\ last.ok) =>
        /\ ~disk.dir
        /\ DOMAIN disk.files = {}
        /\ disk.dirs = {}
        /\ disk.pages = {}
        /\ ~ENABLED Collect

\* C7 witness: a delete ran all its steps.
C7_Witness ==
    /\ last.op = "delete" /\ last.ok
    /\ "remove_test_dir" \in Range(last.trace)
    /\ ~disk.dir

\* C8: cleaning removes out/ and diff/, and ref/ only for an ephemeral test;
\* it leaves the files and a non-ephemeral test's ref/ as they were, succeeds
\* when the directories are absent, and changes nothing when applied again.
C8_CleanFrame ==
    [][last'.op = "clean" =>
          /\ disk'.files = disk.files
          /\ disk'.dir = disk.dir
          /\ refKind # "Ephemeral" =>
                (("RefDir" \in disk'.dirs) = ("RefDir" \in disk.dirs)
                    /\ disk'.pages = disk.pages)
          /\ last'.ok =>
                /\ "OutDir" \notin disk'.dirs
                /\ "DiffDir" \notin disk'.dirs
                /\ refKind = "Ephemeral" => "RefDir" \notin disk'.dirs
          /\ last'.err # "PermissionDenied" => last'.ok
          /\ (last.op = "clean" /\ last.ok) => disk' = disk]_vars

\* C8 witness: a persistent test was cleaned and kept its reference pages.
C8_Witness ==
    /\ last.op = "clean" /\ last.ok
    /\ refKind = "Persistent"
    /\ "RefDir" \in disk.dirs /\ disk.pages # {}
    /\ "OutDir" \notin disk.dirs

\* C9 (as stated): create_dir succeeds when the directory exists, remove_dir
\* succeeds when it does not; `already exists` and `not found` are never
\* returned.
C9_AbsorbAlways ==
    [][/\ last'.op = "create_dir" =>
            /\ last'.err # "AlreadyExists"
            /\ (PathState(disk, last'.arg.target) # "absent"
                    /\ last'.err # "PermissionDenied") => last'.ok
       /\ last'.op = "remove_dir" =>
            /\ last'.err # "NotFound"
            /\ (PathState(disk, last'.arg.target) = "absent"
                    /\ last'.err # "PermissionDenied") => last'.ok]_vars

\* C9 (amended): create_dir succeeds when the directory exists; remove_dir
\* succeeds when the directory does not exist but its parent does, and returns
\* `not found` when the parent is missing too.
C9_AbsorbWithParent ==
    [][/\ last'.op = "create_dir" =>
            /\ last'.err # "AlreadyExists"
            /\ (PathState(disk, last'.arg.target) # "absent"
                    /\ last'.err # "PermissionDenied") => (last'.ok /\ disk' = disk)
       /\ last'.op = "remove_dir" =>
            /\ (PathState(disk, last'.arg.target) = "absent"
                    /\ last'.err # "PermissionDenied") =>
                  /\ disk' = disk
                  /\ last'.ok = ParentExists(disk, last'.arg.target)
                  /\ ~last'.ok => last'.err = "NotFound"
            /\ (PathState(disk, last'.arg.target) # "absent") =>
                  last'.err # "NotFound"]_vars

\* C9 witness: remove_dir returned `not found` for a directory whose parent
\* does not exist.
C9_Witness ==
    /\ last.op = "remove_dir" /\ ~last.ok /\ last.err = "NotFound"
    /\ last.arg.target = "OutDir" /\ ~disk.dir

\* C10: Vcs::ignore writes one file, .gitignore for Git and .hgignore for
\* Mercurial, starting with the header, listing diff/** and out/**, listing
\* ref/** iff the test is not persistent, with `syntax: glob` for Mercurial.
C10_IgnoreContent ==
    [][(last'.op = "ignore" /\ last'.ok) =>
          LET name == IF vcs = "Git" THEN ".gitignore" ELSE ".hgignore"
              content == disk'.files[name]
          IN /\ name \in DOMAIN disk'.files
             /\ disk' = WriteFile(disk, name, content)
             /\ content[1] = "# generated by tytanic, do not edit"
             /\ {"diff/**", "out/**"} \subseteq Range(content)
             /\ ("ref/**" \in Range(content)) = (refKind # "Persistent")
             /\ ("syntax: glob" \in Range(content)) = (vcs = "Mercurial")
             /\ (vcs = "Git" /\ refKind = "CompileOnly") =>
                   content = <<"# generated by tytanic, do not edit", "",
                               "diff/**", "out/**", "ref/**">>]_vars

\* C10 witness: under Mercurial the ignore file of a persistent test was
\* written next to a stale .gitignore.
C10_Witness ==
    /\ last.op = "ignore" /\ last.ok
    /\ vcs = "Mercurial" /\ refKind = "Persistent"
    /\ HasFile(disk, HGIGNORE_NAME)
    /\ "ref/**" \notin Range(disk.files[HGIGNORE_NAME])
    /\ HasFile(disk, GITIGNORE_NAME)
    /\ disk.files[GITIGNORE_NAME] = StaleIgnore

\* C11: Vcs::ignore rewrites the ignore file: the lines it leaves depend only
\* on the Vcs kind and the test kind, never on what the file held before, and
\* a second ignore leaves the very same disk.
C11_IgnoreIdempotent ==
    [][(last'.op = "ignore" /\ last'.ok) =>
          LET name == IF vcs = "Git" THEN ".gitignore" ELSE ".hgignore"
              fresh == Vcs_ignore([disk EXCEPT !.files =
                                       [f \in DOMAIN @ \ {name} |-> @[f]]],
                                  vcs, refKind, FALSE)
              again == Vcs_ignore(disk', vcs, refKind, FALSE)
          IN /\ disk' = fresh.disk
             /\ again.ok /\ again.disk = disk'
             /\ "blah blah" \notin Range(disk'.files[name])
             /\ (last.op = "ignore" /\ last.ok) => disk' = disk]_vars

\* C11 witness: ignore succeeded on an ignore file that held foreign content,
\* and ignore succeeded again on the file it had generated.
C11_Witness ==
    /\ last.op = "ignore" /\ last.ok
    /\ last.arg.before = "generated"
    /\ HasFile(disk, IgnoreFileName(vcs))
    /\ disk.files[IgnoreFileName(vcs)] = IgnoreContent(vcs, refKind)

\* C12: in an existing test directory Vcs::unignore removes the ignore file
\* and nothing else; when the ignore file does not exist it returns success
\* and changes nothing (an io error other than a missing file aside).
C12_UnignoreMissingOk ==
    [][(last'.op = "unignore" /\ disk.dir /\ last'.err # "PermissionDenied") =>
          LET name == IF vcs = "Git" THEN ".gitignore" ELSE ".hgignore"
          IN /\ last'.ok
             /\ name \notin DOMAIN disk'.files
             /\ disk'.dir = disk.dir /\ disk'.dirs = disk.dirs
             /\ disk'.pages = disk.pages
             /\ \A f \in DOMAIN disk.files \ {name} :
                    f \in DOMAIN disk'.files /\ disk'.files[f] = disk.files[f]
             /\ (name \notin DOMAIN disk.files) => disk' = disk]_vars

\* ============================================================ identifiers
\* The store at rest while another component runs.
StoreIdle ==
    /\ disk = EmptyDisk /\ refKind = "CompileOnly" /\ vcs = "NoVcs"
    /\ last = [op |-> "init", ok |-> TRUE, err |-> "none", trace |-> <<>>,
               arg |-> NoArg]

\* An identifier string is a sequence of tokens: a name fragment or the
\* separator. Adjacent fragments form one segment.
MaxIdLen == 3
IdTokens == {"a", "out", "/"}
RawIds == UNION {[1..n -> IdTokens] : n \in 1..MaxIdLen}

\* Splitting at the separator, empty segments kept (str::split('/')).
RECURSIVE SplitFrom(_, _, _)
SplitFrom(raw, i, seg) ==
    IF i > Len(raw) THEN <<seg>>
    ELSE IF raw[i] = "/" THEN <<seg>> \o SplitFrom(raw, i + 1, <<>>)
    ELSE SplitFrom(raw, i + 1, Append(seg, raw[i]))

components(raw) == SplitFrom(raw, 1, <<>>)

\* Id::new: every segment is non-empty, which excludes the empty string and
\* leading, trailing and consecutive separators.
Id_is_valid(raw) ==
    /\ Len(raw) > 0
    /\ \A i \in DOMAIN components(raw) : Len(components(raw)[i]) > 0

\* Paths::test_root with project root "root".
test_root == << <<"root">>, <<"tests">> >>

\* Paths::unit_test_dir: the test root extended by the segments.
unit_test_dir(id) == test_root \o components(id)

unit_test_script(id) == Append(unit_test_dir(id), <<"test.typ">>)
unit_test_ref_script(id) == Append(unit_test_dir(id), <<"ref.typ">>)
unit_test_ref_dir(id) == Append(unit_test_dir(id), <<"ref">>)

\* Variant: one output directory below the test root for all tests.
unit_test_out_dir_Shared(id) == Append(test_root, <<"out">>)

unit_test_out_dir(id) == Append(unit_test_dir(id), <<"out">>)
unit_test_diff_dir(id) == Append(unit_test_dir(id), <<"diff">>)

PathsOf(id) ==
    [dir |-> unit_test_dir(id), script |-> unit_test_script(id),
     ref_script |-> unit_test_ref_script(id), ref_dir |-> unit_test_ref_dir(id),
     out_dir |-> unit_test_out_dir(id), diff_dir |-> unit_test_diff_dir(id)]

InitPaths ==
    /\ StoreIdle /\ IdleAfterPaths
    /\ \E a \in RawIds, b \in RawIds :
          pathSt = [stage |-> "raw", a |-> a, b |-> b, ida |-> <<>>,
                    idb |-> <<>>, valid |-> FALSE, pa |-> NoPaths, pb |-> NoPaths]

\* Id::new on both strings.
IdNew ==
    /\ pathSt.stage = "raw"
    /\ pathSt' = [pathSt EXCEPT
                     !.stage = "ids",
                     !.valid = Id_is_valid(pathSt.a) /\ Id_is_valid(pathSt.b),
                     !.ida = components(pathSt.a),
                     !.idb = components(pathSt.b)]
    /\ UNCHANGED <<storeVars, afterPaths>>

\* The path functions applied to both identifiers.
UnitTestPaths ==
    /\ pathSt.stage = "ids" /\ pathSt.valid
    /\ pathSt' = [pathSt EXCEPT !.stage = "paths",
                                !.pa = PathsOf(pathSt.a),
                                !.pb = PathsOf(pathSt.b)]
    /\ UNCHANGED <<storeVars, afterPaths>>

NextPaths == IdNew \/ UnitTestPaths

SpecPaths == InitPaths /\ [][NextPaths]_vars

\* One sequence of segments starts with the other.
IsPrefix(s, t) == Len(s) <= Len(t) /\ SubSeq(t, 1, Len(s)) = s

EXIT_OK == 0
EXIT_TEST_FAILURE == 1
EXIT_OPERATION_FAILURE == 2
EXIT_ERROR == 3

\* What can go wrong around the tests of one run, at most one per run.
Faults == {"none", "uninit", "discover_io", "no_typst", "prepare_io",
           "cleanup_io", "reporter_io"}

\* What ctx.test(test).run() returns: Ok(Ok(_)), Ok(Err(_)) or Err(_).
Outcomes == {"pass", "fail", "error"}

\* No filter, or a filter and the names it retains.
Filters == {[some |-> FALSE, matches |-> {}], [some |-> TRUE, matches |-> {}],
            [some |-> TRUE, matches |-> {1}], [some |-> TRUE, matches |-> Tests]}

InitRun ==
    /\ StoreIdle /\ PathsIdle /\ IdleAfterRun
    /\ \E fault \in Faults, found \in SUBSET Tests, filter \in Filters,
          ff \in BOOLEAN, outcome \in [Tests -> Outcomes] :
          /\ \A t \in Tests \ found : outcome[t] = "pass"
          /\ env = [fault |-> fault, found |-> found, filter |-> filter,
                    fail_fast |-> ff, outcome |-> outcome]
    /\ phase = "start" /\ matched = {}
    /\ pc = [w \in Workers |-> "idle"] /\ cur = [w \in Workers |-> 0]
    /\ started = {} /\ reported = {} /\ all_ok = TRUE /\ full = FALSE
    /\ breaks = {} /\ occurred = {} /\ exitCode = -1

\* main: the exit code of a CliResult or of an error.
Exit(code) == /\ phase' = "done" /\ exitCode' = code

\* bail_gracefully!(if_no_tests_match): what the filter retains.
Retained(found, filter) ==
    IF filter.some THEN found \cap filter.matches ELSE found

\* run_tests up to the parallel loop.
RunTestsBegin ==
    /\ phase = "start"
    /\ LET m == Retained(env.found, env.filter)
       IN IF env.fault = "uninit"
             THEN Exit(EXIT_OPERATION_FAILURE) /\ UNCHANGED <<matched, occurred>>
          ELSE IF env.fault = "discover_io"
             THEN /\ Exit(EXIT_ERROR) /\ occurred' = {"discover_io"}
                  /\ UNCHANGED matched
          ELSE IF env.found = {}
             THEN Exit(EXIT_OPERATION_FAILURE) /\ UNCHANGED <<matched, occurred>>
          ELSE IF m = {}
             THEN Exit(EXIT_OPERATION_FAILURE) /\ matched' = m
                  /\ UNCHANGED occurred
          ELSE IF env.fault = "no_typst"
             THEN Exit(EXIT_OPERATION_FAILURE) /\ matched' = m
                  /\ UNCHANGED occurred
          ELSE IF env.fault = "prepare_io"
             THEN /\ Exit(EXIT_ERROR) /\ occurred' = {"prepare_io"}
                  /\ matched' = m
          ELSE /\ phase' = "running" /\ matched' = m
               /\ UNCHANGED <<exitCode, occurred>>
    /\ UNCHANGED <<env, pc, cur, started, reported, all_ok, full, breaks>>
    /\ UNCHANGED <<beforeRun, afterRun>>

\* Variant: a worker takes the next test whatever the stop flag says.
MayTake_IgnoreStop(w) == pc[w] = "idle"

\* try_for_each: a worker takes another item only while no closure has
\* returned an error.
MayTake(w) == pc[w] = "idle" /\ ~full

\* A worker takes a test and starts ctx.test(test).run().
TakeTest ==
    /\ phase = "running"
    /\ \E w \in Workers, t \in matched \ started :
          /\ MayTake(w)
          /\ pc' = [pc EXCEPT ![w] = "running"]
          /\ cur' = [cur EXCEPT ![w] = t]
          /\ started' = started \cup {t}
    /\ UNCHANGED <<env, phase, matched, reported, all_ok, full, breaks,
                   occurred, exitCode>>
    /\ UNCHANGED <<beforeRun, afterRun>>

\* run() returns: a failure clears all_ok, an error leaves the closure with
\* Err(Some(err)).
TestFinished ==
    /\ phase = "running"
    /\ \E w \in Workers :
          /\ pc[w] = "running"
          /\ LET o == env.outcome[cur[w]]
             IN IF o = "error"
                   THEN /\ pc' = [pc EXCEPT ![w] = "idle"]
                        /\ cur' = [cur EXCEPT ![w] = 0]
                        /\ breaks' = breaks \cup {"Some"}
                        /\ occurred' = occurred \cup {"test_error"}
                        /\ full' = TRUE
                        /\ UNCHANGED all_ok
                   ELSE /\ pc' = [pc EXCEPT ![w] = "finished"]
                        /\ all_ok' = (all_ok /\ o = "pass")
                        /\ UNCHANGED <<cur, breaks, occurred, full>>
    /\ UNCHANGED <<env, phase, matched, started, reported, exitCode>>
    /\ UNCHANGED <<beforeRun, afterRun>>

\* The worker locks the reporter, reports the result and leaves the closure:
\* with Err(Some(e)) if reporting failed, with Err(None) after a failure under
\* fail-fast, with Ok(()) otherwise.
ReportResult ==
    /\ phase = "running"
    /\ \E w \in Workers :
          /\ pc[w] = "finished"
          /\ pc' = [pc EXCEPT ![w] = "idle"]
          /\ cur' = [cur EXCEPT ![w] = 0]
          /\ IF env.fault = "reporter_io"
                THEN /\ breaks' = breaks \cup {"Some"}
                     /\ occurred' = occurred \cup {"report_io"}
                     /\ full' = TRUE
                     /\ UNCHANGED reported
                ELSE /\ reported' = reported \cup {cur[w]}
                     /\ UNCHANGED occurred
                     /\ IF env.outcome[cur[w]] = "fail" /\ env.fail_fast
                           THEN breaks' = breaks \cup {"None"} /\ full' = TRUE
                           ELSE UNCHANGED <<breaks, full>>
    /\ UNCHANGED <<env, phase, matched, started, all_ok, exitCode>>
    /\ UNCHANGED <<beforeRun, afterRun>>

\* try_for_each returns once every worker is done: Ok(()) if no closure
\* returned an error, else one of the errors returned. Then the rest of
\* run_tests and main.
RunTestsEnd ==
    /\ phase = "running"
    /\ \A w \in Workers : pc[w] = "idle"
    /\ full \/ started = matched
    /\ \E res \in (IF breaks = {} THEN {"Ok"} ELSE breaks) :
          IF res = "Some" THEN Exit(EXIT_ERROR) /\ UNCHANGED occurred
          ELSE IF env.fault = "cleanup_io"
             THEN Exit(EXIT_ERROR) /\ occurred' = occurred \cup {"cleanup_io"}
          ELSE /\ Exit(IF all_ok THEN EXIT_OK ELSE EXIT_TEST_FAILURE)
               /\ UNCHANGED occurred
    /\ UNCHANGED <<env, matched, pc, cur, started, reported, all_ok, full,
                   breaks>>
    /\ UNCHANGED <<beforeRun, afterRun>>

NextRun ==
    \/ RunTestsBegin
    \/ TakeTest
    \/ TestFinished
    \/ ReportResult
    \/ RunTestsEnd

SpecRun == InitRun /\ [][NextRun]_vars

Graceful ==
    \/ env.fault \in {"uninit", "no_typst"}
    \/ Retained(env.found, env.filter) = {}

\* C15: a run ends with exit code 1 iff an executed test failed and no
\* unexpected error occurred, with 0 iff every executed test passed, with 3
\* when an unexpected error occurred, and with 2 on a graceful failure.
C15_ExitCodes ==
    phase = "done" =>
        LET failed == {t \in started : env.outcome[t] = "fail"}
            unexpected == occurred # {}
        IN /\ (exitCode = 1) <=> (failed # {} /\ ~unexpected)
           /\ (exitCode = 0) <=> (failed = {} /\ ~unexpected /\ ~Graceful)
           /\ unexpected => exitCode = 3
           /\ (Graceful /\ ~unexpected) => exitCode = 2

\* ======================================================== Context::run
\* The errors a chain can hold: the two markers of the cli, the load error
\* for missing pages (with no page found, or some), the annotation parse
\* error, an io error, and any other error.
ErrorKinds == {"OperationFailure", "TestFailure", "MissingPages([])",
               "MissingPages(found)", "ParseAnnotationError", "io", "other"}
MaxChain == 2
Chains == UNION {[1..n -> ErrorKinds] : n \in 1..MaxChain}

CmdResults == {NoResult} \cup {[ok |-> FALSE, chain |-> c] : c \in Chains}

\* The first error of the chain that Context::run recognises, 0 if none.
FirstRecognised(chain) ==
    LET hits == {i \in DOMAIN chain :
                    chain[i] \in {"MissingPages([])", "MissingPages(found)",
                                  "ParseAnnotationError"}}
    IN IF hits = {} THEN 0 ELSE CHOOSE i \in hits : \A j \in hits : i <= j

\* Context::run: returns Ok if the command did; for a recognised error writes
\* the message (`?`) and bails with OperationFailure; after the loop Ok(()).
Context_run(cmd, ui_ok) ==
    IF cmd.ok THEN NoResult
    ELSE IF FirstRecognised(cmd.chain) = 0 THEN NoResult
    ELSE IF ~ui_ok THEN [ok |-> FALSE, chain |-> <<"io">>]
    ELSE [ok |-> FALSE, chain |-> <<"OperationFailure">>]

\* The exit code the process ends with for the result of Context::run.
ExitCodeOf(res) ==
    IF res.ok THEN 0
    ELSE IF \E i \in DOMAIN res.chain : res.chain[i] = "OperationFailure" THEN 2
    ELSE IF \E i \in DOMAIN res.chain : res.chain[i] = "TestFailure" THEN 1
    ELSE 3

InitCtx ==
    /\ StoreIdle /\ PathsIdle /\ RunIdle /\ IdleAfterCtx
    /\ \E cmd \in CmdResults, ui_ok \in BOOLEAN :
          ctxSt = [stage |-> "parsed", cmd |-> cmd, ui_ok |-> ui_ok,
                   res |-> NoResult, code |-> -1]

ContextRun ==
    /\ ctxSt.stage = "parsed"
    /\ ctxSt' = [ctxSt EXCEPT !.stage = "ran",
                              !.res = Context_run(ctxSt.cmd, ctxSt.ui_ok)]
    /\ UNCHANGED <<beforeCtx, afterCtx>>

MainExit ==
    /\ ctxSt.stage = "ran"
    /\ ctxSt' = [ctxSt EXCEPT !.stage = "exited", !.code = ExitCodeOf(ctxSt.res)]
    /\ UNCHANGED <<beforeCtx, afterCtx>>

NextCtx == ContextRun \/ MainExit

SpecCtx == InitCtx /\ [][NextCtx]_vars

\* C16: whenever the dispatched command returned an error, Context::run
\* returns an error, and the process does not end with exit code 0.
C16_ErrorNotSwallowed ==
    /\ (ctxSt.stage \in {"ran", "exited"} /\ ~ctxSt.cmd.ok) => ~ctxSt.res.ok
    /\ (ctxSt.stage = "exited" /\ ~ctxSt.cmd.ok) => ctxSt.code # 0

\* ================================================================ update
InitUpd ==
    /\ StoreIdle /\ PathsIdle /\ RunIdle /\ CtxIdle /\ IdleAfterUpd
    /\ \E found \in SUBSET Tests, filter \in Filters, ff \in BOOLEAN,
          failing \in SUBSET Tests :
          /\ failing \subseteq found
          /\ updSt = [stage |-> "start", found |-> found, filter |-> filter,
                      fail_fast |-> ff, failing |-> failing, tests |-> {},
                      refs |-> {}, code |-> -1, unique |-> 0]

\* The sets of tests a run can execute: all of them, or under fail-fast a
\* part of them that holds a failing test.
Executed(tests, failing, ff) ==
    {e \in SUBSET tests :
        \/ e = tests
        \/ ff /\ e \cap failing # {}}

\* cmd::update: run_tests with a context that updates; the references of
\* every executed test that passes are written.
CmdUpdate ==
    /\ updSt.stage = "start"
    /\ LET m == Retained(updSt.found, updSt.filter)
       IN IF m = {}
             THEN updSt' = [updSt EXCEPT !.stage = "updated", !.tests = m,
                                         !.code = EXIT_OPERATION_FAILURE]
          ELSE \E e \in Executed(m, updSt.failing, updSt.fail_fast) :
                 updSt' = [updSt EXCEPT
                     !.stage = "updated", !.tests = m,
                     !.refs = e \ updSt.failing,
                     !.code = IF e \cap updSt.failing = {} THEN EXIT_OK
                              ELSE EXIT_TEST_FAILURE]
    /\ UNCHANGED <<beforeUpd, afterUpd>>

\* Project::unique_test: the only test of the map, 0 for Err(()).
unique_test(tests) ==
    IF Cardinality(tests) # 1 THEN 0
    ELSE CHOOSE t \in tests : \A u \in tests : t <= u

\* The lookup of the unique test among the tests the filter retained.
UniqueTest ==
    /\ updSt.stage = "start"
    /\ LET m == Retained(updSt.found, updSt.filter)
       IN updSt' = [updSt EXCEPT !.stage = "looked_up", !.tests = m,
                                 !.unique = unique_test(m)]
    /\ UNCHANGED <<beforeUpd, afterUpd>>

NextUpd == CmdUpdate \/ UniqueTest

SpecUpd == InitUpd /\ [][NextUpd]_vars

\* C17: an update that matches more than one test, without a confirmation
\* to operate on all of them, writes no references and fails; and the
\* unique-test lookup yields a test exactly when one test is matched.
C17_UpdateRefusedOnMultiple ==
    /\ (updSt.stage = "updated" /\ Cardinality(updSt.tests) > 1) =>
           (updSt.refs = {} /\ updSt.code # 0)
    /\ updSt.stage = "looked_up" =>
           /\ (updSt.unique # 0) <=> (Cardinality(updSt.tests) = 1)
           /\ updSt.unique # 0 => updSt.tests = {updSt.unique}

\* ================================================================ filter
\* Switch::get: whichever flag was set.
Switch_get(sw) ==
    IF sw.skip THEN "Some(true)" ELSE IF sw.no_skip THEN "Some(false)" ELSE "None"

\* SkipSwitch::DEFAULT
SKIP_DEFAULT == TRUE

\* Variant: the skip switch is off unless --skip is given.
get_or_default_Off(sw) == Switch_get(sw) = "Some(true)"

\* Switch::get_or_default for the SkipSwitch.
get_or_default(sw) ==
    IF Switch_get(sw) = "None" THEN SKIP_DEFAULT ELSE Switch_get(sw) = "Some(true)"

\* eval::Set::expr_diff: the tests of the one set that are not in the other.
expr_diff(a, b) == a \ b

\* What an expression denotes over the tests, or the error of building it.
Expressions ==
    {[ok |-> "ok", set |-> e] : e \in SUBSET Tests}
        \cup {[ok |-> k, set |-> {}] : k \in {"parse", "eval"}}

\* The switches clap can produce: the flags override each other.
SkipSwitches ==
    {[skip |-> FALSE, no_skip |-> FALSE], [skip |-> TRUE, no_skip |-> FALSE],
     [skip |-> FALSE, no_skip |-> TRUE]}

\* Context::filter
Context_filter(opts, skipped, ui_ok) ==
    IF opts.tests # {}
       THEN [res |-> NoResult, filter |-> [kind |-> "Explicit", set |-> opts.tests]]
    ELSE IF opts.expression.ok # "ok"
       THEN [res |-> [ok |-> FALSE,
                      chain |-> IF ui_ok THEN <<"OperationFailure">> ELSE <<"io">>],
             filter |-> NoFilter]
    ELSE [res |-> NoResult,
          filter |-> [kind |-> "TestSet",
                      set |-> IF get_or_default(opts.skip)
                              THEN expr_diff(opts.expression.set, skipped)
                              ELSE opts.expression.set]]

InitFlt ==
    /\ StoreIdle /\ PathsIdle /\ RunIdle /\ CtxIdle /\ UpdIdle /\ IdleAfterFlt
    /\ \E e \in Expressions, sw \in SkipSwitches, names \in SUBSET Tests,
          skipped \in SUBSET Tests, ui_ok \in BOOLEAN :
          fltSt = [stage |-> "parsed",
                   opts |-> [expression |-> e, skip |-> sw, tests |-> names],
                   skipped |-> skipped, ui_ok |-> ui_ok, res |-> NoResult,
                   filter |-> NoFilter, matched |-> {}]

ContextFilter ==
    /\ fltSt.stage = "parsed"
    /\ LET r == Context_filter(fltSt.opts, fltSt.skipped, fltSt.ui_ok)
       IN fltSt' = [fltSt EXCEPT !.stage = "filtered", !.res = r.res,
                                 !.filter = r.filter]
    /\ UNCHANGED <<beforeFlt, afterFlt>>

\* Suite::filter: the tests of the suite the filter contains.
SuiteFilter ==
    /\ fltSt.stage = "filtered" /\ fltSt.res.ok
    /\ fltSt' = [fltSt EXCEPT !.stage = "matched",
                              !.matched = Tests \cap fltSt.filter.set]
    /\ UNCHANGED <<beforeFlt, afterFlt>>

NextFlt == ContextFilter \/ SuiteFilter

SpecFlt == InitFlt /\ [][NextFlt]_vars

\* C18: a filter built from an expression with the skip switch on (given or
\* by default) is the set of the expression minus skip(), so no skipped
\* test is matched; a filter built from explicit names is exactly those
\* names whatever the skip switch.
C18_SkipRemoved ==
    (fltSt.stage \in {"filtered", "matched"} /\ fltSt.res.ok) =>
        LET o == fltSt.opts
            on == ~o.skip.no_skip
        IN /\ o.tests # {} =>
                 /\ fltSt.filter = [kind |-> "Explicit", set |-> o.tests]
                 /\ fltSt.stage = "matched" => fltSt.matched = o.tests
           /\ (o.tests = {} /\ on) =>
                 /\ fltSt.filter.kind = "TestSet"
                 /\ fltSt.filter.set = o.expression.set \ fltSt.skipped
                 /\ fltSt.stage = "matched" =>
                        fltSt.matched \cap fltSt.skipped = {}
           /\ (o.tests = {} /\ ~on) => fltSt.filter.set = o.expression.set

\* C18 witness: with no switch given, an expression that contains a skipped
\* test matched the other tests only.
C18_Witness ==
    /\ fltSt.stage = "matched"
    /\ fltSt.opts.tests = {}
    /\ fltSt.opts.skip = [skip |-> FALSE, no_skip |-> FALSE]
    /\ fltSt.opts.expression.set = Tests /\ fltSt.skipped = {2}
    /\ fltSt.matched = Tests \ {2}

\* ======================================================= argument checks
MaxArgs == 3
MaxN == 2
Types == {"num", "func"}
Values == [type : Types, val : 0..1]
ArgLists == UNION {[1..n -> Values] : n \in 0..MaxArgs}

InvalidArgumentCount(expected, is_min, found) ==
    [NoError EXCEPT !.kind = "InvalidArgumentCount", !.expected = expected,
                    !.is_min = is_min, !.found = found]

TypeMismatch(expected, found) ==
    [NoError EXCEPT !.kind = "TypeMismatch", !.expected_type = expected,
                    !.found_type = found]

\* The index of the first value that T::try_from_value rejects, 0 if none
\* (collect::<Result<_, _>> stops at the first error).
FirstMismatch(T, vals) ==
    LET bad == {i \in DOMAIN vals : vals[i].type # T}
    IN IF bad = {} THEN 0 ELSE CHOOSE i \in bad : \A j \in bad : i <= j

\* args.iter().take(N)
Take(vals, n) == SubSeq(vals, 1, IF n <= Len(vals) THEN n ELSE Len(vals))

\* Func::expect_args_exact::<T, N>
expect_args_exact(T, N, args) ==
    IF Len(args) < N
       THEN [NoValues EXCEPT !.err = InvalidArgumentCount(N, FALSE, Len(args))]
    ELSE IF FirstMismatch(T, Take(args, N)) # 0
       THEN [NoValues EXCEPT !.err =
                TypeMismatch(T, args[FirstMismatch(T, Take(args, N))].type)]
    ELSE [NoValues EXCEPT !.ok = TRUE, !.fixed = Take(args, N)]

\* Variant of expect_args_min that leaves out the first of the remaining
\* arguments.
expect_args_min_SkipOne(T, N, args) ==
    IF Len(args) < N
       THEN [NoValues EXCEPT !.err = InvalidArgumentCount(N, TRUE, Len(args))]
    ELSE IF FirstMismatch(T, args) # 0
       THEN [NoValues EXCEPT !.err =
                TypeMismatch(T, args[FirstMismatch(T, args)].type)]
    ELSE [NoValues EXCEPT !.ok = TRUE, !.fixed = Take(args, N),
                          !.rest = SubSeq(args, N + 2, Len(args))]

\* Func::expect_args_min::<T, N>
expect_args_min(T, N, args) ==
    IF Len(args) < N
       THEN [NoValues EXCEPT !.err = InvalidArgumentCount(N, TRUE, Len(args))]
    ELSE IF FirstMismatch(T, Take(args, N)) # 0
       THEN [NoValues EXCEPT !.err =
                TypeMismatch(T, args[FirstMismatch(T, Take(args, N))].type)]
    ELSE IF FirstMismatch(T, SubSeq(args, N + 1, Len(args))) # 0
       THEN [NoValues EXCEPT !.err =
                TypeMismatch(T, args[N + FirstMismatch(T,
                                        SubSeq(args, N + 1, Len(args)))].type)]
    ELSE [NoValues EXCEPT !.ok = TRUE, !.fixed = Take(args, N),
                          !.rest = SubSeq(args, N + 1, Len(args))]

InitArgs ==
    /\ StoreIdle /\ PathsIdle /\ RunIdle /\ CtxIdle /\ UpdIdle /\ FltIdle
    /\ IdleAfterArgs
    /\ \E T \in Types, N \in 0..MaxN, args \in ArgLists :
          argSt = [stage |-> "call", T |-> T, N |-> N, args |-> args,
                   res |-> NoValues]

ExpectArgsExact ==
    /\ argSt.stage = "call"
    /\ argSt' = [argSt EXCEPT !.stage = "exact",
                    !.res = expect_args_exact(argSt.T, argSt.N, argSt.args)]
    /\ UNCHANGED <<beforeArgs, afterArgs>>

ExpectArgsMin ==
    /\ argSt.stage = "call"
    /\ argSt' = [argSt EXCEPT !.stage = "min",
                    !.res = expect_args_min(argSt.T, argSt.N, argSt.args)]
    /\ UNCHANGED <<beforeArgs, afterArgs>>

NextArgs == ExpectArgsExact \/ ExpectArgsMin

SpecArgs == InitArgs /\ [][NextArgs]_vars

\* Every argument is of the type asked for.
AllOfType == \A i \in DOMAIN argSt.args : argSt.args[i].type = argSt.T

\* C19: expect_args_exact returns InvalidArgumentCount (expected N, is_min
\* false, found the number given) whenever the number of arguments differs
\* from N, TypeMismatch when one of exactly N arguments is not of type T,
\* and the N values only when exactly N arguments of type T are given.
C19_ExactChecksArity ==
    argSt.stage = "exact" =>
        LET n == Len(argSt.args)
            r == argSt.res
        IN /\ n # argSt.N =>
                 /\ ~r.ok
                 /\ r.err.kind = "InvalidArgumentCount"
                 /\ r.err.expected = argSt.N /\ ~r.err.is_min /\ r.err.found = n
           /\ (n = argSt.N /\ ~AllOfType) =>
                 ~r.ok /\ r.err.kind = "TypeMismatch"
           /\ r.ok => (n = argSt.N /\ AllOfType /\ r.fixed = argSt.args)
           /\ (n = argSt.N /\ AllOfType) => r.ok

\* C20: expect_args_min fails with InvalidArgumentCount (is_min true) iff
\* fewer than N arguments are given; otherwise it returns the first N
\* arguments and the remaining ones, in order, none lost or duplicated.
C20_MinSplits ==
    argSt.stage = "min" =>
        LET n == Len(argSt.args)
            r == argSt.res
        IN /\ (r.err.kind = "InvalidArgumentCount") <=> (n < argSt.N)
           /\ n < argSt.N =>
                 (r.err.is_min /\ r.err.expected = argSt.N /\ r.err.found = n)
           /\ n >= argSt.N =>
                 /\ r.ok
                 /\ r.fixed = SubSeq(argSt.args, 1, argSt.N)
                 /\ r.fixed \o r.rest = argSt.args

\* C20 amended: as C20 when every argument is of type T; when at least N
\* arguments are given and one of them is not of type T, the call fails with
\* TypeMismatch and returns no values.
C20_MinSplitsTyped ==
    argSt.stage = "min" =>
        LET n == Len(argSt.args)
            r == argSt.res
        IN /\ (r.err.kind = "InvalidArgumentCount") <=> (n < argSt.N)
           /\ n < argSt.N =>
                 (~r.ok /\ r.err.is_min /\ r.err.expected = argSt.N
                  /\ r.err.found = n)
           /\ (n >= argSt.N /\ AllOfType) =>
                 /\ r.ok
                 /\ Len(r.fixed) = argSt.N
                 /\ r.fixed = SubSeq(argSt.args, 1, argSt.N)
                 /\ r.fixed \o r.rest = argSt.args
           /\ (n >= argSt.N /\ ~AllOfType) =>
                 /\ ~r.ok /\ r.err.kind = "TypeMismatch"
                 /\ r.err.expected_type = argSt.T
                 /\ r.err.found_type # argSt.T
                 /\ r.fixed = <<>> /\ r.rest = <<>>

\* C20 witness: with N = 1 and three distinguishable arguments of type T the
\* first came back alone and the other two after it, in order.
C20_Witness ==
    /\ argSt.stage = "min" /\ argSt.N = 1 /\ argSt.T = "num"
    /\ argSt.args = <<[type |-> "num", val |-> 0], [type |-> "num", val |-> 1],
                      [type |-> "num", val |-> 0]>>
    /\ argSt.res.ok
    /\ argSt.res.fixed = <<[type |-> "num", val |-> 0]>>
    /\ argSt.res.rest = <<[type |-> "num", val |-> 1], [type |-> "num", val |-> 0]>>

\* ------------------------------------- a reference script that goes missing
\* Test::load_reference_source: the kind collected decides whether a
\* reference script is read, and the read fails with an i/o error when the
\* script is not on disk; any other kind loads nothing.
load_reference_source(kind, d) ==
    IF kind = "Ephemeral"
    THEN IF HasFile(d, REF_SCRIPT)
         THEN [ok |-> TRUE, source |-> d.files[REF_SCRIPT]]
         ELSE [ok |-> FALSE, source |-> <<>>]
    ELSE [ok |-> TRUE, source |-> <<>>]

\* The per-test state machine of the runner: the test script compiles, then
\* for an ephemeral test the reference script is loaded and compiles.  A
\* stage is the result of a compilation or of a comparison; a load that
\* fails has no stage and is the error of the run of that test.
Runner_run(kind, d, test_compiles, ref_compiles) ==
    LET ref == load_reference_source(kind, d)
    IN IF ~test_compiles
       THEN [res |-> "failure", stage |-> "FailedCompilation", is_reference |-> FALSE]
       ELSE IF ~ref.ok
       THEN [res |-> "error", stage |-> "none", is_reference |-> FALSE]
       ELSE IF kind = "Ephemeral" /\ ~ref_compiles
       THEN [res |-> "failure", stage |-> "FailedCompilation", is_reference |-> TRUE]
       ELSE [res |-> "ok", stage |-> "Passed", is_reference |-> FALSE]

\* The closure of run_tests applied to one test: a success and a failure are
\* reported, a failure clears all_ok and under fail_fast stops the run
\* without an error, and an error is returned by run_tests and ends the run.
run_tests_closure(r, fail_fast) ==
    IF r.res = "ok"
    THEN [reported |-> "success", all_ok |-> TRUE, stop |-> FALSE, aborted |-> FALSE]
    ELSE IF r.res = "failure"
    THEN [reported |-> "failure", all_ok |-> FALSE, stop |-> fail_fast,
          aborted |-> FALSE]
    ELSE [reported |-> "none", all_ok |-> TRUE, stop |-> TRUE, aborted |-> TRUE]

NoRun == [res |-> "none", stage |-> "none", is_reference |-> FALSE]
NoReport == [reported |-> "none", all_ok |-> TRUE, stop |-> FALSE, aborted |-> FALSE]

IdleBeforeRef ==
    /\ StoreIdle /\ PathsIdle /\ RunIdle /\ CtxIdle /\ UpdIdle /\ FltIdle
    /\ ArgsIdle

\* The disks of one test directory: the test script, and a reference script
\* or a reference directory or neither or both.
RefDisks ==
    {[dir |-> TRUE, files |-> f, dirs |-> ds, pages |-> {}] :
        f \in {[n \in {TEST_SCRIPT} |-> <<"Hello World">>],
               [n \in {TEST_SCRIPT, REF_SCRIPT} |-> <<"Hello World">>]},
        ds \in {{}, {"RefDir"}}}

InitRef ==
    /\ IdleBeforeRef /\ IdleAfterRef
    /\ \E d \in RefDisks, tc \in BOOLEAN, rc \in BOOLEAN, ff \in BOOLEAN :
          refSt = [stage |-> "disk", disk |-> d, test_compiles |-> tc,
                   ref_compiles |-> rc, fail_fast |-> ff, kind |-> "none",
                   removed |-> FALSE,
                   run |-> NoRun, out |-> NoReport]

\* The suite is collected: the kind of the test is read off the disk.
CollectTest ==
    /\ refSt.stage = "disk"
    /\ refSt' = [refSt EXCEPT !.stage = "collected",
                              !.kind = DerivedKind(refSt.disk)]
    /\ UNCHANGED <<beforeRef, afterRef>>

\* Another process removes the reference script after the collection.
RemoveRefScript ==
    /\ refSt.stage = "collected"
    /\ HasFile(refSt.disk, REF_SCRIPT)
    /\ refSt' = [refSt EXCEPT !.disk = DropFile(refSt.disk, REF_SCRIPT),
                              !.removed = TRUE]
    /\ UNCHANGED <<beforeRef, afterRef>>

\* The test runs and run_tests matches on what the run returned.
RunTest ==
    /\ refSt.stage = "collected"
    /\ LET r == Runner_run(refSt.kind, refSt.disk, refSt.test_compiles,
                           refSt.ref_compiles)
       IN refSt' = [refSt EXCEPT !.stage = "ran", !.run = r,
                                 !.out = run_tests_closure(r, refSt.fail_fast)]
    /\ UNCHANGED <<beforeRef, afterRef>>

\* The scripts are edited between two runs of the suite.
EditScripts ==
    /\ refSt.stage = "ran"
    /\ \E tc \in BOOLEAN, rc \in BOOLEAN :
          refSt' = [refSt EXCEPT !.stage = "disk", !.test_compiles = tc,
                                 !.ref_compiles = rc, !.kind = "none",
                                 !.removed = FALSE, !.run = NoRun,
                                 !.out = NoReport]
    /\ UNCHANGED <<beforeRef, afterRef>>

NextRef == CollectTest \/ RemoveRefScript \/ RunTest \/ EditScripts

SpecRef == InitRef /\ [][NextRef]_vars

MaxPixels == 2

\* CompareOptions::max_delta is a u8.
U8_MAX == 255

\* Pixels are RGBA8: four channels of one byte each.
PixelValues == {<<0, 0, 0, 0>>, <<0, 0, 0, 1>>, <<0, 255, 0, 0>>,
                <<255, 255, 255, 255>>}

\* A page is a row of pixels; its dimensions are its length.
Pages == UNION {[1..n -> PixelValues] : n \in 1..MaxPixels}

\* The strategies: the smallest and the largest deltas, and a page with
\* no or one deviation allowed.
Strategies == [max_delta : {0, 1, U8_MAX - 1, U8_MAX}, max_deviations : {0, 1}]

abs_diff(a, b) == IF a < b THEN b - a ELSE a - b

Max2(a, b) == IF a < b THEN b ELSE a

\* The maximum of the four channel deltas of a pixel.
pixel_delta(p, q) ==
    Max2(Max2(abs_diff(p[1], q[1]), abs_diff(p[2], q[2])),
         Max2(abs_diff(p[3], q[3]), abs_diff(p[4], q[4])))

\* Variant of is_deviation: a delta equal to max_delta counts as well.
is_deviation_AtLeast(p, q, max_delta) == pixel_delta(p, q) >= max_delta

\* A pixel counts as a deviation if the maximum of the four channel deltas
\* exceeds max_delta.
is_deviation(p, q, max_delta) == pixel_delta(p, q) > max_delta

\* The comparison of one page pair: differing dimensions are an error,
\* otherwise the deviations are counted and more than max_deviations of
\* them are an error.
compare_page(output, reference, strategy) ==
    IF Len(output) # Len(reference)
    THEN [kind |-> "Dimensions", deviations |-> 0]
    ELSE LET n == Cardinality({i \in 1..Len(output) :
                     is_deviation(output[i], reference[i], strategy.max_delta)})
         IN IF n > strategy.max_deviations
            THEN [kind |-> "SimpleDeviations", deviations |-> n]
            ELSE [kind |-> "ok", deviations |-> n]

IdleBeforeCmp == IdleBeforeRef /\ RefIdle

InitCmp ==
    /\ IdleBeforeCmp /\ IdleAfterCmp
    /\ \E o \in Pages, r \in Pages, s \in Strategies :
          cmpSt = [stage |-> "pages", output |-> o, reference |-> r,
                   strategy |-> s,
                   res |-> [kind |-> "none", deviations |-> 0]]

ComparePage ==
    /\ cmpSt.stage = "pages"
    /\ cmpSt' = [cmpSt EXCEPT !.stage = "compared",
                    !.res = compare_page(cmpSt.output, cmpSt.reference,
                                         cmpSt.strategy)]
    /\ UNCHANGED <<beforeCmp, afterCmp>>

NextCmp == ComparePage

SpecCmp == InitCmp /\ [][NextCmp]_vars

\* Two pages of the same dimensions were compared.
ComparedSameDim ==
    /\ cmpSt.stage = "compared"
    /\ Len(cmpSt.output) = Len(cmpSt.reference)

\* C22 as stated: with max_delta = 255 and max_deviations = 0 a comparison
\* of two pages of the same dimensions passes only if the pages are
\* identical.
C22_MaxDeltaOnlyIdentical ==
    (ComparedSameDim /\ cmpSt.strategy.max_delta = U8_MAX
        /\ cmpSt.strategy.max_deviations = 0 /\ cmpSt.res.kind = "ok")
    => cmpSt.output = cmpSt.reference

\* C22 amended: with max_delta = 255 no pixel is a deviation and every
\* comparison of two pages of the same dimensions passes; it is with
\* max_delta = 0 and max_deviations = 0 that a comparison passes exactly
\* when the pages are identical.
C22_ZeroDeltaOnlyIdentical ==
    ComparedSameDim
    => /\ cmpSt.strategy.max_delta = U8_MAX
            => (cmpSt.res.kind = "ok" /\ cmpSt.res.deviations = 0)
       /\ (cmpSt.strategy.max_delta = 0 /\ cmpSt.strategy.max_deviations = 0)
            => (cmpSt.res.kind = "ok" <=> cmpSt.output = cmpSt.reference)

\* C22 witness: two different pages of the same dimensions passed the
\* comparison under max_delta = 255 and max_deviations = 0.
C22_Witness ==
    /\ ComparedSameDim
    /\ cmpSt.strategy = [max_delta |-> U8_MAX, max_deviations |-> 0]
    /\ cmpSt.output # cmpSt.reference
    /\ \E i \in 1..Len(cmpSt.output) :
          pixel_delta(cmpSt.output[i], cmpSt.reference[i]) = U8_MAX
    /\ cmpSt.res.kind = "ok"

\* ------------------------------------------------------ the indenting writer
\* The length of the longest text and the largest indent.
MaxText == 4
MaxIndent == 2

\* The bytes of a text: a letter, a space and the newline.
NL == "\n"
SP == " "
Bytes == {"a", SP, NL}
Texts == UNION {[1..n -> Bytes] : n \in 0..MaxText}

\* " ".repeat(indent)
Pad(n) == [i \in 1..n |-> SP]

\* buf.iter().position(pred): the index before the first byte for which
\* the test holds, or -1 when there is none; the test is "is a newline"
\* or "is not a newline".
Position(buf, newline) ==
    LET hits == {i \in 1..Len(buf) : (buf[i] = NL) = newline}
    IN IF hits = {} THEN -1
       ELSE (CHOOSE i \in hits : \A j \in hits : i <= j) - 1

RECURSIVE write_all_PadEmpty(_, _, _, _)
RECURSIVE write_all(_, _, _, _)
\* Variant of write_all: the indent is written at the start of every line,
\* the empty ones as well.
write_all_PadEmpty(out, need_indent, indent, buf) ==
    IF need_indent
    THEN IF buf = <<>> THEN [out |-> out, need_indent |-> TRUE]
         ELSE write_all_PadEmpty(out \o Pad(indent), FALSE, indent, buf)
    ELSE LET len == Position(buf, TRUE)
         IN IF len = -1
            THEN [out |-> out \o buf, need_indent |-> FALSE]
            ELSE write_all_PadEmpty(out \o SubSeq(buf, 1, len + 1), TRUE,
                     indent, SubSeq(buf, len + 2, Len(buf)))

\* Indented::write_all: while an indent is needed the newlines at the head
\* of the buffer are passed on and the indent is written before the first
\* other byte; otherwise the bytes up to and including the next newline are
\* passed on and an indent is needed again.
write_all(out, need_indent, indent, buf) ==
    IF need_indent
    THEN LET len == Position(buf, FALSE)
         IN IF len = -1
            THEN [out |-> out \o buf, need_indent |-> TRUE]
            ELSE write_all(out \o SubSeq(buf, 1, len) \o Pad(indent), FALSE,
                           indent, SubSeq(buf, len + 1, Len(buf)))
    ELSE LET len == Position(buf, TRUE)
         IN IF len = -1
            THEN [out |-> out \o buf, need_indent |-> FALSE]
            ELSE write_all(out \o SubSeq(buf, 1, len + 1), TRUE, indent,
                           SubSeq(buf, len + 2, Len(buf)))

\* Indented::new and Indented::continued
Indented_new(indent) ==
    [indent |-> indent, need_indent |-> TRUE, out |-> <<>>]
Indented_continued(indent) ==
    [indent |-> indent, need_indent |-> FALSE, out |-> <<>>]

IdleBeforeInd == IdleBeforeCmp /\ CmpIdle

InitInd ==
    /\ IdleBeforeInd /\ IdleAfterInd
    /\ \E t \in Texts, n \in 0..MaxIndent, continued \in BOOLEAN :
          indSt = [stage |-> "writing", text |-> t, pos |-> 0,
                   cuts |-> {}, continued |-> continued,
                   w |-> IF continued THEN Indented_continued(n)
                         ELSE Indented_new(n)]

\* One call of write_all with the next k bytes of the text; cuts records
\* where in the text the calls ended.
WriteAll ==
    /\ indSt.stage = "writing"
    /\ \E k \in 0..(Len(indSt.text) - indSt.pos) :
          LET r == write_all(indSt.w.out, indSt.w.need_indent,
                             indSt.w.indent,
                             SubSeq(indSt.text, indSt.pos + 1, indSt.pos + k))
          IN indSt' = [indSt EXCEPT !.pos = indSt.pos + k,
                                    !.cuts = indSt.cuts \cup {indSt.pos + k},
                                    !.w.out = r.out,
                                    !.w.need_indent = r.need_indent]
    /\ UNCHANGED <<beforeInd, afterInd>>

\* Indented::into_inner: the writer is given up.
IntoInner ==
    /\ indSt.stage = "writing"
    /\ indSt' = [indSt EXCEPT !.stage = "done"]
    /\ UNCHANGED <<beforeInd, afterInd>>

NextInd == WriteAll \/ IntoInner

SpecInd == InitInd /\ [][NextInd]_vars

\* The start of the line that holds position i of a text.
LineStart(t, i) ==
    LET nls == {j \in 1..(i - 1) : t[j] = NL}
    IN IF nls = {} THEN 1
       ELSE (CHOOSE j \in nls : \A k \in nls : k <= j) + 1

\* What a text looks like with every non-empty line indented by n spaces,
\* the first line only when asked for: byte i of the text is preceded by
\* the indent iff it is the first byte of its line and not a newline.
RECURSIVE IndentedText(_, _, _, _)
IndentedText(t, n, first, i) ==
    IF i = 0 THEN <<>>
    ELSE IndentedText(t, n, first, i - 1)
           \o (IF LineStart(t, i) = i /\ t[i] # NL /\ (first \/ i > 1)
               THEN Pad(n) ELSE <<>>)
           \o <<t[i]>>

\* C23: whatever the split of the text over the calls of write_all, what
\* reached the inner writer is the text written so far with n spaces
\* before every non-empty line and nothing added to an empty line; a
\* writer made by Indented::continued leaves the first line unindented.
C23_Indented ==
    indSt.w.out = IndentedText(indSt.text, indSt.w.indent, ~indSt.continued,
                               indSt.pos)

\* C23 witness: a text with an empty line between two non-empty lines went
\* through the writer in three calls, one of them ending between the two
\* newlines, with a positive indent.
C23_Witness ==
    /\ indSt.stage = "done"
    /\ indSt.text = <<"a", NL, NL, "a">>
    /\ indSt.w.indent = MaxIndent
    /\ ~indSt.continued
    /\ indSt.pos = 4
    /\ indSt.cuts = {1, 2, 4}
    /\ indSt.w.out = <<SP, SP, "a", NL, NL, SP, SP, "a">>

\* -------------------------------------------------- discovery of a project
\* The depth of the start directory below the root of the file system: the
\* directories are numbered by depth, 0 is the root of the file system, and
\* the ancestors of a directory d are d, d - 1, ..., 0.
MaxDepth == 2
Depths == 0..MaxDepth

\* The markers a directory may hold.
Markers == {{}, {".git"}, {".jj"}, {".hg"}, {".git", ".hg"}}

NoDir == -1
NoVcsFound == [some |-> FALSE, root |-> NoDir, kind |-> "none"]

\* Vcs::try_new
Vcs_try_new(tree, root) ==
    IF ".git" \in tree[root].markers \/ ".jj" \in tree[root].markers
    THEN [some |-> TRUE, root |-> root, kind |-> "Git"]
    ELSE IF ".hg" \in tree[root].markers
    THEN [some |-> TRUE, root |-> root, kind |-> "Mercurial"]
    ELSE NoVcsFound

\* One round of the loop of Project::discover on the ancestor dir, from the
\* project root, the vcs root and the vcs found so far.
discover_step(tree, dir, acc) ==
    LET project_root == IF acc.project_root = NoDir /\ tree[dir].manifest
                        THEN dir ELSE acc.project_root
        found == IF acc.vcs.some THEN acc.vcs ELSE Vcs_try_new(tree, dir)
        vcs_root == IF acc.vcs.some THEN acc.vcs_root ELSE dir
    IN [project_root |-> project_root, vcs_root |-> vcs_root, vcs |-> found]

RECURSIVE discover_loop(_, _, _)
\* The loop of Project::discover over dir.ancestors(), left as soon as the
\* project root and the vcs are both known.
discover_loop(tree, dir, acc) ==
    LET next == discover_step(tree, dir, acc)
    IN IF next.project_root # NoDir /\ next.vcs.some THEN next
       ELSE IF dir = 0 THEN next
       ELSE discover_loop(tree, dir - 1, next)

\* Project::discover
Project_discover(tree, dir, is_project_root) ==
    LET end == discover_loop(tree, dir,
                   [project_root |-> IF is_project_root THEN dir ELSE NoDir,
                    vcs_root |-> NoDir, vcs |-> NoVcsFound])
    IN IF end.project_root = NoDir
       THEN [some |-> FALSE, paths |-> [project |-> NoDir, vcs |-> NoDir],
             vcs |-> NoVcsFound]
       ELSE [some |-> TRUE,
             paths |-> [project |-> end.project_root, vcs |-> end.vcs_root],
             vcs |-> end.vcs]

IdleBeforeDisc == IdleBeforeInd /\ IndIdle

Trees == [Depths -> [markers : Markers, manifest : BOOLEAN]]

InitDisc ==
    /\ IdleBeforeDisc /\ IdleAfterDisc
    /\ \E tree \in Trees, dir \in Depths, is_project_root \in BOOLEAN :
          discSt = [stage |-> "start", tree |-> tree, dir |-> dir,
                    is_project_root |-> is_project_root,
                    res |-> [some |-> FALSE,
                             paths |-> [project |-> NoDir, vcs |-> NoDir],
                             vcs |-> NoVcsFound]]

Discover ==
    /\ discSt.stage = "start"
    /\ discSt' = [discSt EXCEPT !.stage = "discovered",
                     !.res = Project_discover(discSt.tree, discSt.dir,
                                              discSt.is_project_root)]
    /\ UNCHANGED <<beforeDisc, afterDisc>>

NextDisc == Discover

SpecDisc == InitDisc /\ [][NextDisc]_vars

\* The ancestors of the start directory that hold a marker.
Marked == {d \in 0..discSt.dir : discSt.tree[d].markers # {}}

\* The nearest of them.
Nearest == CHOOSE d \in Marked : \A e \in Marked : e <= d

\* C24: a discovered project has as vcs the nearest ancestor of the start
\* directory that holds .git or .jj (Git) or .hg (Mercurial), and the vcs
\* root of its paths is that directory; when no ancestor holds a marker
\* the project has no vcs and its paths have no vcs root.
C24_VcsRootIsNearestMarker ==
    (discSt.stage = "discovered" /\ discSt.res.some)
    => IF Marked = {}
       THEN ~discSt.res.vcs.some /\ discSt.res.paths.vcs = NoDir
       ELSE /\ discSt.res.vcs.some
            /\ discSt.res.vcs.root = Nearest
            /\ discSt.res.vcs.kind =
                  (IF discSt.tree[Nearest].markers \cap {".git", ".jj"} # {}
                   THEN "Git" ELSE "Mercurial")
            /\ discSt.res.paths.vcs = Nearest

\* ------------------------------------------------ the file slots of a world
\* The threads that access the world during a compilation.
NumThreads == 2
Threads == 1..NumThreads

\* What the file of the one file id holds: a text, another text, bytes
\* that are not UTF-8, or nothing at all (the file is missing).
Contents == {"A", "B", "bad", "missing"}

CellNames == {"source", "file"}

\* read: the bytes of the file, or the error of the access.
read(content) ==
    IF content = "missing" THEN [ok |-> FALSE, v |-> "NotFound"]
    ELSE [ok |-> TRUE, v |-> content]

\* Variant of hash128: every result has the same hash.
hash128_Constant(result) == 1

\* typst::utils::hash128 of what was read: different results have different
\* hashes, and the hash of a result may be the 0 a new cell starts with.
hash128(result) ==
    IF ~result.ok THEN 3
    ELSE IF result.v = "A" THEN 0
    ELSE IF result.v = "B" THEN 1
    ELSE 2

\* decode_utf8
decode_utf8(data) ==
    IF data = "bad" THEN [ok |-> FALSE, v |-> "InvalidUtf8"]
    ELSE [ok |-> TRUE, v |-> data]

\* The closures FileSlot::source and FileSlot::file hand to get_or_init: the
\* source is the decoded text, put into the previous source when there is
\* one, and the bytes are the data.
Process(name, data, prev) ==
    IF name = "source"
    THEN LET text == decode_utf8(data)
         IN IF ~text.ok THEN text
            ELSE IF prev.some THEN [prev.val EXCEPT !.v = text.v]
            ELSE [ok |-> TRUE, v |-> text.v]
    ELSE [ok |-> TRUE, v |-> data]

NoData == [some |-> FALSE, val |-> [ok |-> FALSE, v |-> "none"]]

\* SlotCell::new
SlotCell_new == [data |-> NoData, fingerprint |-> 0, accessed |-> FALSE]

\* SlotCell::reset
SlotCell_reset(cell) == [cell EXCEPT !.accessed = FALSE]

\* Variant of get_or_init: the cell is read anew at every access.
SlotCell_get_or_init_Reread(cell, name, content) ==
    LET result == read(content)
        fingerprint == hash128(result)
        prev == IF cell.data.some /\ cell.data.val.ok THEN cell.data
                ELSE NoData
        value == IF result.ok THEN Process(name, result.v, prev) ELSE result
    IN IF cell.fingerprint = fingerprint /\ cell.data.some
       THEN [cell |-> [cell EXCEPT !.accessed = TRUE],
             value |-> cell.data.val, read |-> TRUE, processed |-> FALSE]
       ELSE [cell |-> [data |-> [some |-> TRUE, val |-> value],
                       fingerprint |-> fingerprint, accessed |-> TRUE],
             value |-> value, read |-> TRUE, processed |-> result.ok]

\* SlotCell::get_or_init on the cell of the given name while the file holds
\* the given content: the new cell, the value returned, whether the file
\* was read and whether the data was processed.
SlotCell_get_or_init(cell, name, content) ==
    IF cell.accessed /\ cell.data.some
    THEN [cell |-> cell, value |-> cell.data.val, read |-> FALSE,
          processed |-> FALSE]
    ELSE LET result == read(content)
             fingerprint == hash128(result)
             prev == IF cell.data.some /\ cell.data.val.ok THEN cell.data
                     ELSE NoData
             value == IF result.ok THEN Process(name, result.v, prev)
                      ELSE result
         IN IF cell.fingerprint = fingerprint /\ cell.data.some
            THEN [cell |-> [cell EXCEPT !.accessed = TRUE,
                                        !.fingerprint = fingerprint],
                  value |-> cell.data.val, read |-> TRUE,
                  processed |-> FALSE]
            ELSE [cell |-> [data |-> [some |-> TRUE, val |-> value],
                            fingerprint |-> fingerprint, accessed |-> TRUE],
                  value |-> value, read |-> TRUE, processed |-> result.ok]

\* FileSlot::new
FileSlot_new == [c \in CellNames |-> SlotCell_new]

NoValue == [ok |-> FALSE, v |-> "none"]
NoAccess == [cell |-> "none", value |-> NoValue, first |-> FALSE,
             read |-> FALSE, processed |-> FALSE, content |-> "none",
             before |-> "none"]

IdleBeforeWorld == IdleBeforeDisc /\ DiscIdle

\* SystemWorld::new: no slot yet and the mutex of the slots free.  The
\* remaining fields record, for each cell, the value of the first access
\* of the compilation, the reads of the compilation, the content read in
\* the compilation and the content of the last read ever, and the last
\* access.
InitWorld ==
    /\ IdleBeforeWorld /\ IdleAfterWorld
    /\ \E content \in Contents :
          worldSt = [stage |-> "compiling", disk |-> content,
                     slots |-> [some |-> FALSE, slot |-> FileSlot_new],
                     holder |-> 0, want |-> "none",
                     first |-> [c \in CellNames |-> NoValue],
                     reads |-> [c \in CellNames |-> 0],
                     seen |-> [c \in CellNames |-> "none"],
                     prev |-> [c \in CellNames |-> "none"],
                     last |-> NoAccess]

\* SystemWorld::slot, first half: a thread calls source or file and takes
\* the mutex of the slots.
Lock(t, name) ==
    /\ worldSt.holder = 0
    /\ worldSt' = [worldSt EXCEPT !.holder = t, !.want = name]
    /\ UNCHANGED <<beforeWorld, afterWorld>>

\* SystemWorld::slot, second half: the thread that holds the mutex takes
\* or makes the slot of the file id, calls get_or_init on the cell it
\* wants, and gives the mutex back.
Access(t) ==
    /\ worldSt.holder = t
    /\ LET name == worldSt.want
           slot == worldSt.slots.slot
           r == SlotCell_get_or_init(slot[name], name, worldSt.disk)
           isFirst == worldSt.first[name] = NoValue
       IN worldSt' = [worldSt EXCEPT
              !.holder = 0, !.want = "none",
              !.slots = [some |-> TRUE,
                         slot |-> [slot EXCEPT ![name] = r.cell]],
              !.first[name] = IF isFirst THEN r.value ELSE @,
              !.reads[name] = IF r.read /\ @ < 2 THEN @ + 1 ELSE @,
              !.seen[name] = IF r.read THEN worldSt.disk ELSE @,
              !.prev[name] = IF r.read THEN worldSt.disk ELSE @,
              !.last = [cell |-> name, value |-> r.value, first |-> isFirst,
                        read |-> r.read, processed |-> r.processed,
                        content |-> worldSt.disk,
                        before |-> worldSt.prev[name]]]
    /\ UNCHANGED <<beforeWorld, afterWorld>>

\* Another process writes or removes the file.
ChangeFile ==
    /\ \E content \in Contents \ {worldSt.disk} :
          worldSt' = [worldSt EXCEPT !.disk = content]
    /\ UNCHANGED <<beforeWorld, afterWorld>>

\* SystemWorld::reset, which takes the world by unique reference: no thread
\* is within slot. Every slot there is is reset.
Reset ==
    /\ worldSt.holder = 0
    /\ worldSt' = [worldSt EXCEPT
          !.slots.slot = [c \in CellNames |-> SlotCell_reset(@[c])],
          !.first = [c \in CellNames |-> NoValue],
          !.reads = [c \in CellNames |-> 0],
          !.seen = [c \in CellNames |-> "none"],
          !.last = NoAccess]
    /\ UNCHANGED <<beforeWorld, afterWorld>>

NextWorld ==
    \/ \E t \in Threads, name \in CellNames : Lock(t, name)
    \/ \E t \in Threads : Access(t)
    \/ ChangeFile
    \/ Reset

SpecWorld == InitWorld /\ [][NextWorld]_vars

\* What an access to a cell yields from a content read from disk.
ValueOf(name, content) ==
    IF content = "missing" THEN [ok |-> FALSE, v |-> "NotFound"]
    ELSE IF name = "source" /\ content = "bad"
    THEN [ok |-> FALSE, v |-> "InvalidUtf8"]
    ELSE [ok |-> TRUE, v |-> content]

\* C25: within one compilation every access to a cell returns what the
\* first access of that compilation to the cell returned, whatever the
\* file holds by then, and no cell reads the file more than once in a
\* compilation, with the accesses made by concurrent threads.
C25_StableWithinCompilation ==
    /\ \A c \in CellNames : worldSt.reads[c] <= 1
    /\ worldSt.last.cell # "none"
          => /\ worldSt.last.value = worldSt.first[worldSt.last.cell]
             /\ worldSt.last.value =
                   ValueOf(worldSt.last.cell, worldSt.seen[worldSt.last.cell])

\* C25 witness: an access later than the first one of the compilation, made
\* after the file changed, returned the value of the first access.
C25_Witness ==
    /\ worldSt.last.cell = "source"
    /\ ~worldSt.last.first /\ ~worldSt.last.read
    /\ worldSt.last.content = "B" /\ worldSt.seen["source"] = "A"
    /\ worldSt.last.value = [ok |-> TRUE, v |-> "A"]
    /\ worldSt.holder # 0

\* C26: the first access to a cell in a compilation reads the file; when
\* the content is the one of the last read of the cell the data is not
\* processed again, and in every case the value returned is the one of
\* the content read, never one of an older content.
C26_FirstAccessIsFresh ==
    (worldSt.last.cell # "none" /\ worldSt.last.first)
    => /\ worldSt.last.read
       /\ worldSt.last.value = ValueOf(worldSt.last.cell, worldSt.last.content)
       /\ worldSt.last.before = worldSt.last.content => ~worldSt.last.processed
       /\ (worldSt.last.before # worldSt.last.content
              /\ worldSt.last.content # "missing") => worldSt.last.processed

\* C26 witness: a first access of a compilation found the file changed
\* since the last read of the cell and returned the value of the new
\* content.
C26_Witness ==
    /\ worldSt.last.cell = "source" /\ worldSt.last.first
    /\ worldSt.last.before = "A" /\ worldSt.last.content = "B"
    /\ worldSt.last.value = [ok |-> TRUE, v |-> "B"]
    /\ worldSt.last.processed

\* Part of the case of C26: a first access of a compilation found the file
\* unchanged and returned the value it had without processing it again.
C26_WitnessUnchanged ==
    /\ worldSt.last.cell = "source" /\ worldSt.last.first
    /\ worldSt.last.before = "A" /\ worldSt.last.content = "A"
    /\ worldSt.last.read /\ ~worldSt.last.processed

\* ------------------------------------------------ the ignored annotation
\* The number of lines of the longest test script.
MaxLines == 3

\* The marker "[ignored]" is one symbol of a line, IGNORED; the other
\* symbols are the slash, the space and a letter.
IGNORED == "[ignored]"

\* The lines a test script is made of.
ScriptLines ==
    {<<"/", "/", "/", " ", IGNORED>>,
     <<"/", "/", "/", IGNORED>>,
     <<"/", "/", "/", " ", " ", IGNORED, " ">>,
     <<"/", "/", "/", " ", IGNORED, " ", "x">>,
     <<"/", "/", "/", " ", "x">>,
     <<"/", "/", "/">>,
     <<"/", "/", "/", "/", " ", IGNORED>>,
     <<"/", "/", " ", IGNORED>>,
     <<" ", "/", "/", "/", " ", IGNORED>>,
     <<IGNORED>>,
     <<"x">>,
     <<>>}

Scripts == UNION {[1..n -> ScriptLines] : n \in 0..MaxLines}

\* l.starts_with("///")
starts_with_doc(l) ==
    Len(l) >= 3 /\ l[1] = "/" /\ l[2] = "/" /\ l[3] = "/"

\* l.strip_prefix("///"), for a line that starts with it
strip_prefix_doc(l) == SubSeq(l, 4, Len(l))

RECURSIVE trim(_)
\* str::trim: the spaces at both ends are taken off
trim(s) ==
    IF s = <<>> THEN s
    ELSE IF Head(s) = " " THEN trim(Tail(s))
    ELSE IF s[Len(s)] = " " THEN trim(SubSeq(s, 1, Len(s) - 1))
    ELSE s

RECURSIVE take_while_doc(_)
\* Variant of take_while_doc: all the lines are taken.
take_while_doc_All(lines) == lines

\* source.lines().take_while(|l| l.starts_with("///"))
take_while_doc(lines) ==
    IF lines = <<>> \/ ~starts_with_doc(Head(lines)) THEN <<>>
    ELSE <<Head(lines)>> \o take_while_doc(Tail(lines))

\* The is_ignored of Test::create: among the lines taken, one that is
\* "[ignored]" once the prefix is stripped and the rest trimmed.
is_ignored(lines) ==
    LET head == take_while_doc(lines)
    IN \E i \in 1..Len(head) :
          /\ starts_with_doc(head[i])
          /\ trim(strip_prefix_doc(head[i])) = <<IGNORED>>

IdleBeforeAnn == IdleBeforeWorld /\ WorldIdle

InitAnn ==
    /\ IdleBeforeAnn /\ IdleAfterAnn
    /\ \E source \in Scripts :
          annSt = [stage |-> "source", source |-> source,
                   is_ignored |-> FALSE]

\* Test::create with the source: the test made carries is_ignored.
CreateAnnotated ==
    /\ annSt.stage = "source"
    /\ annSt' = [annSt EXCEPT !.stage = "created",
                              !.is_ignored = is_ignored(annSt.source)]
    /\ UNCHANGED <<beforeAnn, afterAnn>>

NextAnn == CreateAnnotated

SpecAnn == InitAnn /\ [][NextAnn]_vars

\* A line is the marker line: three slashes, then spaces, the marker and
\* spaces, and nothing else.
IsMarkerLine(l) ==
    /\ Len(l) >= 4
    /\ \A k \in 1..3 : l[k] = "/"
    /\ \E k \in 4..Len(l) :
          /\ l[k] = IGNORED
          /\ \A j \in (4..Len(l)) \ {k} : l[j] = " "

\* Line i of the source lies in the leading run of lines that start
\* with three slashes.
InLeadingRun(source, i) ==
    \A j \in 1..i : Len(source[j]) >= 3 /\ SubSeq(source[j], 1, 3) = <<"/", "/", "/">>

\* C27: the test created is ignored iff a line of the leading run of lines
\* that start with /// is the marker line; a marker line after the first
\* line that does not start with /// has no effect.
C27_IgnoredIffLeadingMarker ==
    annSt.stage = "created"
    => (annSt.is_ignored <=>
            \E i \in 1..Len(annSt.source) :
                InLeadingRun(annSt.source, i) /\ IsMarkerLine(annSt.source[i]))

\* C27 witness: a test was created from a source with a marker line only
\* after the first line that does not start with ///, and is not ignored.
C27_Witness ==
    /\ annSt.stage = "created"
    /\ annSt.source = <<<<"/", "/", "/", " ", "x">>, <<"x">>,
                        <<"/", "/", "/", " ", IGNORED>>>>
    /\ ~annSt.is_ignored

\* ------------------------------------------- creating a test from a scaffold
\* ScaffoldOptions: a set of flags held in the bits of a u32, with the one
\* flag EXAMPLE, whose bits are 0.
SCAFFOLD_EXAMPLE == 0
ScaffoldEmpty == 0

\* The and of two sets of flags of one bit.
BitAnd(a, b) == IF a = 1 /\ b = 1 THEN 1 ELSE 0

\* ScaffoldOptions::contains, as bitflags defines it: all bits of other
\* are set in self.
Scaffold_contains(self, other) == BitAnd(self, other) = other

\* The reference kinds a caller may ask for; None is compile only.
AskedKinds == {"None", "Ephemeral", "Persistent"}

\* Project::create_test up to the choice of the references: the id may be
\* taken, a persistent test with a template asked for and loaded gets the
\* default reference, and any other persistent test reaches todo!().
Project_create_test(has_test, template, kind, use_template) ==
    IF has_test THEN [res |-> "TestAlreadyExists", created |-> FALSE]
    ELSE IF kind = "Ephemeral" THEN [res |-> "ok", created |-> TRUE]
    ELSE IF kind = "Persistent" /\ use_template /\ template
    THEN [res |-> "ok", created |-> TRUE]
    ELSE IF kind = "Persistent" THEN [res |-> "todo", created |-> FALSE]
    ELSE [res |-> "ok", created |-> TRUE]

\* Project::init: the test root is created, and with the example option
\* contained in the options the test example is created, persistent and
\* without the template.
Project_init(has_test, template, options, io_fault) ==
    IF io_fault THEN [res |-> "Io", created |-> FALSE]
    ELSE IF Scaffold_contains(options, SCAFFOLD_EXAMPLE)
    THEN Project_create_test(has_test, template, "Persistent", FALSE)
    ELSE [res |-> "ok", created |-> FALSE]

IdleBeforeScaf == IdleBeforeAnn /\ AnnIdle

\* The project before the call: whether a template was loaded, whether a
\* test of the id exists, whether the disk refuses the test root, and
\* whether the project has a vcs.
InitScaf ==
    /\ IdleBeforeScaf /\ IdleAfterScaf
    /\ \E template \in BOOLEAN, has_test \in BOOLEAN, io_fault \in BOOLEAN,
          git \in BOOLEAN :
          scafSt = [stage |-> "project", template |-> template,
                    has_test |-> has_test, io_fault |-> io_fault,
                    git |-> git, call |-> "none", kind |-> "None",
                    use_template |-> FALSE, example |-> FALSE,
                    res |-> "none", created |-> FALSE]

\* Project::init, with or without the example option.
ProjectInit ==
    /\ scafSt.stage = "project"
    /\ \E example \in BOOLEAN :
          LET options == IF example THEN SCAFFOLD_EXAMPLE ELSE ScaffoldEmpty
              r == Project_init(scafSt.has_test, scafSt.template, options,
                                scafSt.io_fault)
          IN scafSt' = [scafSt EXCEPT !.stage = "called", !.call = "init",
                           !.example = example, !.kind = "Persistent",
                           !.res = r.res, !.created = r.created]
    /\ UNCHANGED <<beforeScaf, afterScaf>>

\* Project::create_test
ProjectCreateTest ==
    /\ scafSt.stage = "project"
    /\ \E kind \in AskedKinds, use_template \in BOOLEAN :
          LET r == Project_create_test(scafSt.has_test, scafSt.template,
                                       kind, use_template)
          IN scafSt' = [scafSt EXCEPT !.stage = "called",
                           !.call = "create_test", !.kind = kind,
                           !.use_template = use_template,
                           !.res = r.res, !.created = r.created]
    /\ UNCHANGED <<beforeScaf, afterScaf>>

NextScaf == ProjectInit \/ ProjectCreateTest

SpecScaf == InitScaf /\ [][NextScaf]_vars

\* C28: no call of Project::init or of Project::create_test reaches the
\* todo!() of the persistent test without a usable template.
C28_TodoUnreachable ==
    scafSt.stage = "called" => scafSt.res # "todo"

\* ----------------------------------------- the test root as a tree of entries
\* A tree is a function from the paths below the test root, sequences of
\* names, to entries with a type and, for a file, a content. The name
\* NON_UTF8 stands for a name that is not UTF-8.
NON_UTF8 == "\\xff"

Parent(p) == SubSeq(p, 1, Len(p) - 1)

DirEntry == [type |-> "dir", content |-> "none"]
FileEntry(content) == [type |-> "file", content |-> content]

\* Path::to_str of a relative path: none when a name is not UTF-8.
to_str_ok(p) == \A i \in DOMAIN p : p[i] # NON_UTF8

\* The tests Project::discover_tests finds: WalkDir yields every entry
\* below the test root, the entries that are not regular files named
\* test.typ are skipped, the name of a test is the path of the parent of
\* the file relative to the test root, and an entry whose name is not
\* UTF-8 is skipped.
discover_tests(tree) ==
    {Parent(p) : p \in {q \in DOMAIN tree :
                          /\ Len(q) >= 1
                          /\ tree[q].type = "file"
                          /\ q[Len(q)] = TEST_SCRIPT
                          /\ to_str_ok(Parent(q))}}

\* fs::remove_dir_all
remove_dir_all(tree, path) ==
    IF path \notin DOMAIN tree THEN [ok |-> FALSE, err |-> "NotFound", tree |-> tree]
    ELSE [ok |-> TRUE, err |-> "none",
          tree |-> [p \in {q \in DOMAIN tree : ~IsPrefix(path, q)} |-> tree[p]]]

\* util::fs::remove_dir(path, true) of typst-test: NotFound is ignored when
\* the parent exists.
tt_remove_dir(tree, path) ==
    LET r == remove_dir_all(tree, path)
    IN IF ~r.ok /\ r.err = "NotFound"
          /\ (Len(path) = 1 \/ Parent(path) \in DOMAIN tree)
       THEN [r EXCEPT !.ok = TRUE, !.err = "none"]
       ELSE r

\* util::fs::create_dir(path, all) of typst-test: with all the parents are
\* created as well, without all the parent has to exist, and AlreadyExists
\* is ignored.
tt_create_dir(tree, path, all) ==
    LET missing == {SubSeq(path, 1, n) : n \in 1..Len(path)} \ DOMAIN tree
    IN IF ~all /\ Len(path) > 1 /\ Parent(path) \notin DOMAIN tree
       THEN [ok |-> FALSE, err |-> "NotFound", tree |-> tree]
       ELSE [ok |-> TRUE, err |-> "none",
             tree |-> [p \in DOMAIN tree \cup missing |->
                          IF p \in DOMAIN tree THEN tree[p] ELSE DirEntry]]

\* util::fs::create_empty_dir: the directory is removed with all it holds,
\* a NotFound of the removal is ignored under all, and the directory is
\* created.
create_empty_dir(tree, path, all) ==
    LET res == tt_remove_dir(tree, path)
    IN IF ~res.ok /\ ~(all /\ res.err = "NotFound") THEN res
       ELSE tt_create_dir(res.tree, path, all)

\* File::options().write(true).create_new(true).open(path) and write_all
create_new(tree, path, content) ==
    IF path \in DOMAIN tree
    THEN [ok |-> FALSE, err |-> "AlreadyExists", tree |-> tree]
    ELSE [ok |-> TRUE, err |-> "none",
          tree |-> [p \in DOMAIN tree \cup {path} |->
                       IF p = path THEN FileEntry(content) ELSE tree[p]]]

\* Project::create_test of typst-test, on the tests discovered before.
tt_create_test(tree, tests, name, template) ==
    IF name \in tests
    THEN [ok |-> FALSE, err |-> "TestsAlreadyExists", tree |-> tree]
    ELSE LET r1 == create_empty_dir(tree, name, TRUE)
             r2 == IF r1.ok
                   THEN create_new(r1.tree, Append(name, TEST_SCRIPT),
                                   IF template THEN "template" ELSE "default")
                   ELSE r1
             r3 == IF r2.ok /\ ~template
                   THEN create_empty_dir(r2.tree, Append(name, "ref"), FALSE)
                   ELSE r2
             r4 == IF r3.ok /\ ~template
                   THEN create_new(r3.tree, name \o <<"ref", "1.png">>, "default")
                   ELSE r3
         IN r4

\* The files that may be below the test root before the call.
OldFiles == {<<"a", TEST_SCRIPT>>, <<"a", "b", TEST_SCRIPT>>,
             <<"a", "notes.txt">>, <<"a", "ref", "1.png">>,
             <<"c", TEST_SCRIPT>>}

\* The directories that may be there without anything in them.
OldDirs == {<<"a">>, <<"a", "b">>}

\* The names of the new test.
NewNames == {<<"a">>, <<"a", "b">>, <<"c">>, <<"d">>}

Ancestors(p) == {SubSeq(p, 1, n) : n \in 1..(Len(p) - 1)}

TreeOf(files, dirs) ==
    LET ds == dirs \cup UNION {Ancestors(p) : p \in files \cup dirs}
    IN [p \in files \cup ds |->
           IF p \in files THEN FileEntry("old") ELSE DirEntry]

IdleBeforeNew == IdleBeforeScaf /\ ScafIdle

InitNew ==
    /\ IdleBeforeNew /\ IdleAfterNew
    /\ \E files \in SUBSET OldFiles, dirs \in SUBSET OldDirs,
          name \in NewNames, template \in BOOLEAN :
          newSt = [stage |-> "disk", tree |-> TreeOf(files, dirs),
                   before |-> TreeOf(files, dirs), name |-> name,
                   template |-> template, tests |-> {}, ok |-> FALSE,
                   err |-> "none"]

\* cmd::add, first half: the tests are discovered.
DiscoverBeforeAdd ==
    /\ newSt.stage = "disk"
    /\ newSt' = [newSt EXCEPT !.stage = "discovered",
                              !.tests = discover_tests(newSt.tree)]
    /\ UNCHANGED <<beforeNew, afterNew>>

\* cmd::add, second half: the test is created.
CreateTest ==
    /\ newSt.stage = "discovered"
    /\ LET r == tt_create_test(newSt.tree, newSt.tests, newSt.name,
                               newSt.template)
       IN newSt' = [newSt EXCEPT !.stage = "created", !.tree = r.tree,
                                 !.ok = r.ok, !.err = r.err]
    /\ UNCHANGED <<beforeNew, afterNew>>

NextNew == DiscoverBeforeAdd \/ CreateTest

SpecNew == InitNew /\ [][NextNew]_vars

\* C29: after Project::create_test every file and directory that was
\* below the test root before the call is still there and unchanged.
C29_NothingLost ==
    newSt.stage = "created"
    => \A p \in DOMAIN newSt.before :
          p \in DOMAIN newSt.tree /\ newSt.tree[p] = newSt.before[p]

\* ------------------------------------------------ the walk of the test root
\* The directories that may be below the test root, the last with a name
\* that is not UTF-8.
WalkDirs == {<<"a">>, <<"a", "out">>, <<"out">>, <<NON_UTF8>>}

\* What a directory may hold under the name test.typ.
ScriptTypes == {"none", "file", "dir", "symlink"}

\* The trees of the walk: a set of directories closed under parents, and
\* for the test root and each of them what it holds as test.typ.
WalkTree(dirs, scripts) ==
    LET holders == {d \in dirs \cup {<<>>} : scripts[d] # "none"}
    IN [p \in dirs \cup {Append(d, TEST_SCRIPT) : d \in holders} |->
           IF p \in dirs THEN DirEntry
           ELSE [type |-> scripts[Parent(p)], content |-> "none"]]

\* The name of a test as a string: the names of the relative path joined
\* by the separator.
RECURSIVE path_to_str(_)
path_to_str(p) ==
    IF p = <<>> THEN <<>>
    ELSE IF Len(p) = 1 THEN <<p[1]>>
    ELSE <<p[1], "/">> \o path_to_str(Tail(p))

IdleBeforeWalk == IdleBeforeNew /\ NewIdle

InitWalk ==
    /\ IdleBeforeWalk
    /\ \E dirs \in SUBSET WalkDirs :
          /\ \A d \in dirs : Ancestors(d) \subseteq dirs
          /\ \E scripts \in [dirs \cup {<<>>} -> ScriptTypes] :
                walkSt = [stage |-> "tree", dirs |-> dirs,
                          scripts |-> scripts,
                          tree |-> WalkTree(dirs, scripts),
                          tests |-> {}, names |-> {}]

\* Project::discover_tests: the tests found are kept under their names.
DiscoverTests ==
    /\ walkSt.stage = "tree"
    /\ LET found == discover_tests(walkSt.tree)
       IN walkSt' = [walkSt EXCEPT !.stage = "discovered", !.tests = found,
                        !.names = {path_to_str(t) : t \in found}]
    /\ UNCHANGED beforeWalk

NextWalk == DiscoverTests

SpecWalk == InitWalk /\ [][NextWalk]_vars

\* C30: every test discovered is the directory, relative to the test root,
\* that holds a regular file test.typ, no other entry makes a test, and
\* the name of every test is a valid identifier that is not empty.
C30_DiscoveredIdsValid ==
    walkSt.stage = "discovered"
    => /\ \A t \in walkSt.tests :
             t \in walkSt.dirs \cup {<<>>} /\ walkSt.scripts[t] = "file"
       /\ \A n \in walkSt.names : n # <<>> /\ Id_is_valid(n)

====
